---- MODULE Spec2Model ----
(***************************************************************************)
(* Qualification pipeline of the option-selling underwriter: strike        *)
(* finder, scoring engine and the qualify orchestrator.                    *)
(*                                                                         *)
(* Units.  Money (strike, bid, ask, credit, maxLoss, breakeven, price) is  *)
(* in cents; delta, theta, pop, implied volatility and every percentage    *)
(* threshold are in hundredths; scores of the scoring engine are in        *)
(* hundredths of a point.  Arithmetic is exact (rational comparisons are   *)
(* cross-multiplied), where the program uses IEEE doubles.                 *)
(* An optional value (T | null | undefined) is <<>> or <<v>>.              *)
(***************************************************************************)
EXTENDS Integers, Sequences, FiniteSets, TLC

VARIABLES
  \* findStrikeCandidate: arguments, locals and return value
  chain, underlyingPrice, strategy, config, shortSel, longSel, strikeResult, strikePc,
  \* scoreCandidate: argument and return value
  scoreInput, scoreResult, scorePc,
  \* qualify: the request, the position in the run, the locals of the ticker
  \* being processed, the two output lists and the response
  request, qPc, included, idx, fundamentals, resolvedPrice, resolvedAvgVolume,
  tickerChain, candidates, disqualified, response,
  \* history of the run: the trade candidates built per ticker with the price,
  \* volume, chain, selected strategies and (when there are any) calendar they
  \* were built from, and the provider calls that raised
  built, raised,
  \* selectStrategies: argument and return value
  selectInput, selection, selectPc,
  \* rankExpirations: arguments and return value
  rankInput, rankTopN, rankedTop, rankPc,
  \* evaluateLiquidityGate: argument and return value
  gateInput, gateResult, gatePc,
  \* buildUniverse: the request, which API keys are configured, the locals
  \* and the position in the loop, the result lists, and the provider
  \* responses each ticker met
  universeRequest, apiKeys, sourceTickers, normalizedTickers, universeIdx,
  universeIncluded, universeExcluded, universePc, lookups,
  \* buildExplanation: argument and outcome
  explainInput, explanation, explainPc,
  \* evaluatePositionSizing as qualify calls it: the account, the best trade
  \* candidate, the sizing result and the candidates list it is pushed to
  sizingInput, sizingResult, sizedCandidates, sizingPc,
  \* evaluateConcentrationRisk: arguments and return value
  concentrationInput, concentrationResult, concentrationPc,
  \* AlpacaClient.request: the client's maxRetries, the loop counter, the number
  \* of fetches issued, the statuses received, the sleeps taken, the position
  maxRetries, attempt, fetches, statuses, waits, retryPc,
  \* withCache: the shared store, the time, the calls in progress (each with
  \* its arguments, position and outcome) and the history of the writes
  cacheStore, clock, calls, writes

strikeVars == <<chain, underlyingPrice, strategy, config, shortSel, longSel, strikeResult, strikePc>>
scoreVars == <<scoreInput, scoreResult, scorePc>>
qualifyVars == <<request, qPc, included, idx, fundamentals, resolvedPrice, resolvedAvgVolume,
                 tickerChain, candidates, disqualified, response, built, raised>>
selectVars == <<selectInput, selection, selectPc>>
rankVars == <<rankInput, rankTopN, rankedTop, rankPc>>
gateVars == <<gateInput, gateResult, gatePc>>
universeVars == <<universeRequest, apiKeys, sourceTickers, normalizedTickers, universeIdx,
                  universeIncluded, universeExcluded, universePc, lookups>>
explainVars == <<explainInput, explanation, explainPc>>
sizingVars == <<sizingInput, sizingResult, sizedCandidates, sizingPc>>
concentrationVars == <<concentrationInput, concentrationResult, concentrationPc>>
retryVars == <<maxRetries, attempt, fetches, statuses, waits, retryPc>>
cacheVars == <<cacheStore, clock, calls, writes>>
libVars == <<selectVars, rankVars, gateVars, universeVars, explainVars,
            sizingVars,
            concentrationVars,
            retryVars,
            cacheVars>>
vars == <<strikeVars, scoreVars, qualifyVars, libVars>>

----------------------------------------------------------------------------
(* Helpers *)

Null == <<>>
Some(v) == <<v>>
IsNull(o) == o = <<>>
Val(o) == o[1]

Abs(x) == IF x < 0 THEN -x ELSE x
Max2(a, b) == IF a >= b THEN a ELSE b
Min2(a, b) == IF a <= b THEN a ELSE b

\* Array.prototype.filter
Filter(s, Keep(_)) == SelectSeq(s, Keep)

\* Array.prototype.sort with a consistent comparator (stable): Before(a, b)
\* is "comparator(a, b) < 0".
StableSort(s, Before(_, _)) ==
  LET n == Len(s)
      pos(i) == 1 + Cardinality({j \in 1..n :
                        Before(s[j], s[i]) \/ (~Before(s[i], s[j]) /\ j < i)})
  IN [k \in 1..n |-> s[CHOOSE i \in 1..n : pos(i) = k]]

\* A const declaration: the value is computed once and named in what follows.
Bind(value, Body(_)) == Body(value)

\* Array.prototype.map
Map(s, F(_)) == [i \in 1..Len(s) |-> F(s[i])]

\* Math.round of a value given in hundredths: nearest integer, halves up.
RoundHundredths(x) == (x + 50) \div 100

----------------------------------------------------------------------------
(* Strike finder: src/src/lib/strategy/strike-finder.ts *)

Strategies == {"CSP", "PCS", "CCS", "CC"}

DEFAULT_CONFIG ==
  [allowAtm |-> FALSE, minShortBid |-> 5, maxSpreadPct |-> 20,
   minOpenInterest |-> 200, minVolume |-> 20, minCredit |-> 10, minCreditPct |-> 15,
   cspMinOtmPct |-> 5, cspMaxOtmPct |-> 30, cspTargetDelta |-> 23, cspDeltaMin |-> 18, cspDeltaMax |-> 28,
   pcsMinOtmPct |-> 3, pcsMaxOtmPct |-> 25, pcsTargetDelta |-> 20, pcsDeltaMin |-> 18, pcsDeltaMax |-> 22,
   ccsMinOtmPct |-> 3, ccsMaxOtmPct |-> 25, ccsTargetDelta |-> 18, ccsDeltaMin |-> 15, ccsDeltaMax |-> 20,
   ccMinOtmPct |-> 3, ccMaxOtmPct |-> 20, ccTargetDelta |-> 20, ccDeltaMin |-> 15, ccDeltaMax |-> 25,
   spreadWidthMin |-> 300, spreadWidthMax |-> 1000]

\* otmPct >= min and otmPct <= max, otmPct = (underlying - strike) / underlying
\* for a put and (strike - underlying) / underlying for a call, underlying > 0.
calcOtmNum(underlying, strike, side) ==
  IF side = "put" THEN underlying - strike ELSE strike - underlying

isValidOtm(underlying, strike, side, cfg, minOtm, maxOtm) ==
  LET num == calcOtmNum(underlying, strike, side)
  IN IF ~cfg.allowAtm /\ num <= 0 THEN FALSE
     ELSE 100 * num >= minOtm * underlying /\ 100 * num <= maxOtm * underlying

inDeltaBand(delta, min, max) ==
  IF IsNull(delta) THEN FALSE
  ELSE Abs(Val(delta)) >= min /\ Abs(Val(delta)) <= max

\* calcSpreadPct is (ask - bid) / mid with mid = (bid + ask) / 2, Infinity
\* when mid <= 0: the pair <<numerator, denominator>>, <<1, 0>> for Infinity.
calcSpreadPct(bid, ask) ==
  IF bid + ask <= 0 THEN <<1, 0>> ELSE <<2 * (ask - bid), bid + ask>>

\* a.spreadPct - b.spreadPct < 0 (Infinity - Infinity is NaN: not < 0)
SpreadLess(a, b) ==
  LET sa == calcSpreadPct(a.bid, a.ask)
      sb == calcSpreadPct(b.bid, b.ask)
  IN IF sa[2] = 0 THEN FALSE
     ELSE IF sb[2] = 0 THEN TRUE
     ELSE sa[1] * sb[2] < sb[1] * sa[2]

\* Variant of isLiquidShort without the spread test.
isLiquidShortMissingSpread(contract, cfg) ==
  /\ contract.bid >= cfg.minShortBid
  /\ contract.ask > 0
  /\ contract.openInterest >= cfg.minOpenInterest
  /\ contract.volume >= cfg.minVolume

isLiquidShort(contract, cfg) ==
  LET sp == calcSpreadPct(contract.bid, contract.ask)
  IN /\ contract.bid >= cfg.minShortBid
     /\ contract.ask > 0
     /\ sp[2] # 0
     /\ 100 * sp[1] <= cfg.maxSpreadPct * sp[2]
     /\ contract.openInterest >= cfg.minOpenInterest
     /\ contract.volume >= cfg.minVolume

getStrategyConfig(strat, cfg) ==
  CASE strat = "CSP" ->
         [minOtmPct |-> cfg.cspMinOtmPct, maxOtmPct |-> cfg.cspMaxOtmPct,
          targetDelta |-> cfg.cspTargetDelta, deltaMin |-> cfg.cspDeltaMin,
          deltaMax |-> cfg.cspDeltaMax, side |-> "put"]
    [] strat = "PCS" ->
         [minOtmPct |-> cfg.pcsMinOtmPct, maxOtmPct |-> cfg.pcsMaxOtmPct,
          targetDelta |-> cfg.pcsTargetDelta, deltaMin |-> cfg.pcsDeltaMin,
          deltaMax |-> cfg.pcsDeltaMax, side |-> "put"]
    [] strat = "CCS" ->
         [minOtmPct |-> cfg.ccsMinOtmPct, maxOtmPct |-> cfg.ccsMaxOtmPct,
          targetDelta |-> cfg.ccsTargetDelta, deltaMin |-> cfg.ccsDeltaMin,
          deltaMax |-> cfg.ccsDeltaMax, side |-> "call"]
    [] OTHER ->
         [minOtmPct |-> cfg.ccMinOtmPct, maxOtmPct |-> cfg.ccMaxOtmPct,
          targetDelta |-> cfg.ccTargetDelta, deltaMin |-> cfg.ccDeltaMin,
          deltaMax |-> cfg.ccDeltaMax, side |-> "call"]

\* The three filters of selectShortStrike applied to one side contract.
PassesShortFilters(contract, underlying, sc, cfg) ==
  /\ isValidOtm(underlying, contract.strike, sc.side, cfg, sc.minOtmPct, sc.maxOtmPct)
  /\ inDeltaBand(contract.delta, sc.deltaMin, sc.deltaMax)
  /\ isLiquidShort(contract, cfg)

DeltaDistance(contract, target) ==
  Abs(Abs(IF IsNull(contract.delta) THEN 0 ELSE Val(contract.delta)) - target)

\* The comparator of the sort in selectShortStrike returns a negative number.
ShortBefore(a, b, target) ==
  LET distanceA == DeltaDistance(a, target)
      distanceB == DeltaDistance(b, target)
  IN IF distanceA # distanceB THEN distanceA < distanceB
     ELSE IF a.bid # b.bid THEN b.bid < a.bid
     ELSE SpreadLess(a, b)

selectShortStrike(contracts, underlying, sc, cfg) ==
  LET sideContracts == Filter(contracts, LAMBDA c : c.side = sc.side)
      otmMatches == Filter(sideContracts, LAMBDA c :
                      isValidOtm(underlying, c.strike, sc.side, cfg, sc.minOtmPct, sc.maxOtmPct))
      deltaMatches == Filter(sideContracts, LAMBDA c :
                      inDeltaBand(c.delta, sc.deltaMin, sc.deltaMax))
      liquidityMatches == Filter(sideContracts, LAMBDA c : isLiquidShort(c, cfg))
      filtered == Filter(sideContracts, LAMBDA c : PassesShortFilters(c, underlying, sc, cfg))
      sorted == StableSort(filtered, LAMBDA a, b : ShortBefore(a, b, sc.targetDelta))
  IN [strike |-> IF Len(filtered) = 0 THEN Null ELSE Some(sorted[1]),
      diagnostic |-> [total |-> Len(sideContracts),
                      otmMatches |-> Len(otmMatches),
                      deltaMatches |-> Len(deltaMatches),
                      liquidityMatches |-> Len(liquidityMatches),
                      bothMatches |-> Len(filtered)]]

\* The reduce of selectLongStrike: the first contract of withinRange whose
\* distance to the middle of the width range is smallest.  Distances are
\* doubled to keep (widthMin + widthMax) / 2 an integer.
RECURSIVE ReduceLong(_, _, _, _, _)
ReduceLong(withinRange, i, best, shortStrike, twiceTarget) ==
  IF i > Len(withinRange) THEN best
  ELSE LET contract == withinRange[i]
           bestDistance == Abs(2 * Abs(best.strike - shortStrike) - twiceTarget)
           nextDistance == Abs(2 * Abs(contract.strike - shortStrike) - twiceTarget)
       IN ReduceLong(withinRange, i + 1,
                     IF nextDistance < bestDistance THEN contract ELSE best,
                     shortStrike, twiceTarget)

selectLongStrike(contracts, shortStrike, side, widthMin, widthMax) ==
  LET sideCandidates == Filter(contracts, LAMBDA c : c.side = side)
      withinRange == Filter(sideCandidates, LAMBDA c :
                       /\ Abs(c.strike - shortStrike) >= widthMin
                       /\ Abs(c.strike - shortStrike) <= widthMax)
  IN IF Len(sideCandidates) = 0 THEN Null
     ELSE IF Len(withinRange) = 0 THEN Null
     ELSE Some(ReduceLong(withinRange, 2, withinRange[1], shortStrike, widthMin + widthMax))

\* Variants of calcCredit: without the floor at 0, and with the long leg
\* paid at its bid.
calcCreditUnclamped(short, long) ==
  IF IsNull(long) THEN short.bid ELSE short.bid - Val(long).ask

calcCreditLongBid(short, long) ==
  IF IsNull(long) THEN short.bid ELSE Max2(short.bid - Val(long).bid, 0)

calcCredit(short, long) ==
  IF IsNull(long) THEN short.bid ELSE Max2(short.bid - Val(long).ask, 0)

calcTheta(short, long) ==
  LET shortTheta == IF IsNull(short.theta) THEN 0 ELSE Val(short.theta)
      longTheta == IF IsNull(long) \/ IsNull(Val(long).theta) THEN 0 ELSE Val(Val(long).theta)
  IN shortTheta - longTheta

calcPop(short) ==
  IF IsNull(short.delta) THEN 50
  ELSE Max2(0, Min2(100, 100 - Abs(Val(short.delta))))

buildCandidate(strat, short, long, reasons) ==
  LET credit == calcCredit(short, long)
      width == IF IsNull(long) THEN 0 ELSE Abs(short.strike - Val(long).strike)
      maxLoss == IF IsNull(long) THEN Max2(short.strike - credit, 0)
                 ELSE Max2(width - credit, 0)
      breakeven == IF short.side = "put" THEN short.strike - credit ELSE short.strike + credit
  IN [strategy |-> strat,
      shortStrike |-> short.strike,
      longStrike |-> IF IsNull(long) THEN Null ELSE Some(Val(long).strike),
      credit |-> credit,
      maxLoss |-> maxLoss,
      breakeven |-> breakeven,
      thetaPerDay |-> calcTheta(short, long),
      pop |-> calcPop(short),
      shortDelta |-> short.delta,
      reasons |-> reasons]

\* Variant of applyCreditGuardrails that stops at the first failed guardrail.
applyCreditGuardrailsFirstOnly(candidate, short, long, cfg) ==
  LET insufficient == candidate.credit < cfg.minCredit
      width == IF IsNull(long) THEN 0 ELSE Abs(short.strike - Val(long).strike)
      poor == /\ ~IsNull(long)
              /\ width > 0
              /\ 100 * candidate.credit < cfg.minCreditPct * width
  IN [candidate EXCEPT !.reasons =
        @ \o (IF insufficient THEN <<"INSUFFICIENT_CREDIT">>
              ELSE IF poor THEN <<"POOR_CREDIT_TO_WIDTH">> ELSE <<>>)]

\* applyCreditGuardrails pushes onto candidate.reasons: the candidate after it.
applyCreditGuardrails(candidate, short, long, cfg) ==
  LET insufficient == candidate.credit < cfg.minCredit
      width == IF IsNull(long) THEN 0 ELSE Abs(short.strike - Val(long).strike)
      poor == /\ ~IsNull(long)
              /\ width > 0
              /\ 100 * candidate.credit < cfg.minCreditPct * width
  IN [candidate EXCEPT !.reasons =
        @ \o (IF insufficient THEN <<"INSUFFICIENT_CREDIT">> ELSE <<>>)
          \o (IF poor THEN <<"POOR_CREDIT_TO_WIDTH">> ELSE <<>>)]

\* Variant of the placeholder on which the credit guardrails have run.
FailedCandidateGuarded(strat, shortStrike, shortDelta, code) ==
  [strategy |-> strat, shortStrike |-> shortStrike, longStrike |-> Null,
   credit |-> 0, maxLoss |-> 0, breakeven |-> 0, thetaPerDay |-> 0, pop |-> 0,
   shortDelta |-> shortDelta, reasons |-> <<code, "INSUFFICIENT_CREDIT">>]

\* The placeholder candidate of the three terminal failures.
FailedCandidate(strat, shortStrike, shortDelta, code) ==
  [strategy |-> strat, shortStrike |-> shortStrike, longStrike |-> Null,
   credit |-> 0, maxLoss |-> 0, breakeven |-> 0, thetaPerDay |-> 0, pop |-> 0,
   shortDelta |-> shortDelta, reasons |-> <<code>>]

\* findStrikeCandidate with its locals: the selected short and long contract
\* (Null when not reached) and the returned candidate.
findStrikeLocals(contracts, price, strat, cfg) ==
  IF Len(contracts) = 0
  THEN [short |-> Null, long |-> Null,
        result |-> FailedCandidate(strat, 0, Null, "NO_TRADE")]
  ELSE Bind(selectShortStrike(contracts, price, getStrategyConfig(strat, cfg), cfg).strike,
    LAMBDA short :
      IF IsNull(short)
      THEN [short |-> Null, long |-> Null,
            result |-> FailedCandidate(strat, 0, Null, "NO_VALID_SHORT_STRIKE")]
      ELSE IF strat = "CSP" \/ strat = "CC"
      THEN [short |-> short, long |-> Null,
            result |-> applyCreditGuardrails(buildCandidate(strat, Val(short), Null, <<>>),
                                             Val(short), Null, cfg)]
      ELSE Bind(selectLongStrike(contracts, Val(short).strike,
                                 getStrategyConfig(strat, cfg).side,
                                 cfg.spreadWidthMin, cfg.spreadWidthMax),
        LAMBDA long :
          IF IsNull(long)
          THEN [short |-> short, long |-> Null,
                result |-> FailedCandidate(strat, Val(short).strike, Val(short).delta,
                                           "NO_VALID_LONG_STRIKE")]
          ELSE [short |-> short, long |-> long,
                result |-> applyCreditGuardrails(
                             buildCandidate(strat, Val(short), long, <<>>),
                             Val(short), long, cfg)]))

findStrikeCandidate(contracts, price, strat, cfg) ==
  findStrikeLocals(contracts, price, strat, cfg).result


----------------------------------------------------------------------------
(* Inputs of the strike finder *)

MaxChain == 3

Contract(symbol, side, strike, bid, ask, openInterest, delta) ==
  [symbol |-> symbol, side |-> side, expiration |-> 45, strike |-> strike,
   bid |-> bid, ask |-> ask, openInterest |-> openInterest, volume |-> 30,
   impliedVol |-> 30, delta |-> delta, theta |-> Some(-5)]

\* "A" and "B" are the two contracts of the test "selects the short strike
\* closest to target delta" (makeContract defaults: ask 0.25, open interest
\* 300, volume 30, theta -0.05).
FixtureA == Contract("A", "put", 14500, 20, 25, 300, Some(-19))
FixtureB == Contract("B", "put", 14000, 40, 25, 300, Some(-21))

ContractPool ==
  { FixtureA, FixtureB,
    Contract("P135", "put", 13500, 150, 155, 300, Some(-20)),
    Contract("P130", "put", 13000, 60, 62, 300, Some(-15)),
    Contract("P145", "put", 14500, 40, 42, 300, Some(-21)),
    Contract("P150", "put", 15000, 50, 54, 300, Some(-19)),
    Contract("PN", "put", 14000, 90, 92, 100, Null),
    Contract("C170", "call", 17000, 100, 104, 300, Some(18)),
    Contract("C175", "call", 17500, 20, 22, 300, Some(12)) }

RECURSIVE SeqsUpTo(_, _)
SeqsUpTo(S, n) ==
  IF n = 0 THEN {<<>>}
  ELSE LET shorter == SeqsUpTo(S, n - 1)
       IN shorter \cup {Append(s, x) : s \in shorter, x \in S}

Prices == {16000, 14500}

\* Partial<StrikeFinderConfig> merged over DEFAULT_CONFIG.
Configs ==
  { DEFAULT_CONFIG,
    [DEFAULT_CONFIG EXCEPT !.minCredit = 50],
    [DEFAULT_CONFIG EXCEPT !.allowAtm = TRUE, !.cspMinOtmPct = 0, !.pcsMinOtmPct = 0,
                           !.ccsMinOtmPct = 0, !.ccMinOtmPct = 0] }

NoCandidate == FailedCandidate("CSP", 0, Null, "NONE")

IdleStrike ==
  /\ chain = <<>> /\ underlyingPrice = 0 /\ strategy = "CSP" /\ config = DEFAULT_CONFIG
  /\ shortSel = Null /\ longSel = Null /\ strikeResult = NoCandidate /\ strikePc = "idle"

InitStrike ==
  /\ chain \in SeqsUpTo(ContractPool, MaxChain)
  /\ underlyingPrice \in Prices
  /\ strategy \in Strategies
  /\ config \in Configs
  /\ shortSel = Null /\ longSel = Null /\ strikeResult = NoCandidate
  /\ strikePc = "call"

\* One call of findStrikeCandidate(chain, underlyingPrice, strategy, config).
FindStrike ==
  /\ strikePc = "call"
  /\ LET locals == findStrikeLocals(chain, underlyingPrice, strategy, config)
     IN /\ shortSel' = locals.short
        /\ longSel' = locals.long
        /\ strikeResult' = locals.result
  /\ strikePc' = "done"
  /\ UNCHANGED <<chain, underlyingPrice, strategy, config>>
  /\ UNCHANGED <<scoreVars, qualifyVars, libVars>>

----------------------------------------------------------------------------
(* Volatility quality: src/src/lib/scoring/event.ts (second part) *)

\* scoreVolatilityQuality under its default configuration (minIv 0.3,
\* penalizeLowIv, spike threshold 0.2, crush threshold -0.15).  The
\* multiplier is returned in millionths.
scoreVolatilityQuality(iv, ivChangeRate) ==
  LET low == ~IsNull(iv) /\ Val(iv) < 30
      spike == ~IsNull(ivChangeRate) /\ Val(ivChangeRate) >= 20
      crush == ~IsNull(ivChangeRate) /\ Val(ivChangeRate) <= -15
      regime == IF IsNull(ivChangeRate) THEN "UNKNOWN"
                ELSE IF Val(ivChangeRate) >= 20 THEN "EXPANDING"
                ELSE IF Val(ivChangeRate) <= -15 THEN "CRUSHED"
                ELSE "STABLE"
  IN [scoreMultiplier |-> (IF low THEN 40 ELSE 100)
                          * (IF spike THEN 70 ELSE 100)
                          * (IF crush THEN 60 ELSE 100),
      riskFlags |-> IF spike THEN <<"RISK_IV_SPIKE">> ELSE <<>>,
      metrics |-> [iv |-> iv, ivChangeRate |-> ivChangeRate, ivRegime |-> regime]]

----------------------------------------------------------------------------
(* Scoring engine: src/unnamed/part_006.  Scores before rounding are in    *)
(* hundredths of a point, weights in points.                               *)

DEFAULT_SCORE_CONFIG ==
  [fundamentalsWeight |-> 30, liquidityWeight |-> 20, volatilityWeight |-> 20,
   technicalWeight |-> 20, eventWeight |-> 10]

clamp(value, min, max) == Max2(min, Min2(max, value))

\* score is accumulated in tenths; score * weight in hundredths of a point.
scoreFundamentals(fund, weight) ==
  IF IsNull(fund) THEN 0
  ELSE LET f == Val(fund)
           score == (IF ~IsNull(f.marketCap) /\ Val(f.marketCap) >= 10000 THEN 3 ELSE 0)
                  + (IF ~IsNull(f.returnOnEquity) /\ Val(f.returnOnEquity) > 0 THEN 2 ELSE 0)
                  + (IF ~IsNull(f.netMargin) /\ Val(f.netMargin) > 0 THEN 2 ELSE 0)
                  + (IF ~IsNull(f.debtToEquity) /\ Val(f.debtToEquity) < 200 THEN 2 ELSE 0)
                  + (IF ~IsNull(f.currentRatio) /\ Val(f.currentRatio) > 100 THEN 1 ELSE 0)
       IN clamp(score * weight * 10, 0, weight * 100)

scoreLiquidity(liquidityGate, weight) ==
  IF IsNull(liquidityGate) THEN weight * 50
  ELSE IF Val(liquidityGate).passed THEN weight * 100 ELSE weight * 20

scoreTechnical(trendScore, weight) ==
  IF IsNull(trendScore) THEN weight * 50
  ELSE clamp(Val(trendScore), 0, 100) * weight

scoreEventRisk(riskFlags, weight) ==
  IF Len(riskFlags) = 0 THEN weight * 100
  ELSE clamp(weight * 100 - Len(riskFlags) * 200, 0, weight * 100)

interpretScore(total) ==
  IF total >= 80 THEN "HIGH" ELSE IF total >= 65 THEN "ACCEPTABLE" ELSE "PASS"

\* Array.from(new Set([...a, ...b])): first occurrences, in order.
RECURSIVE Dedupe(_)
Dedupe(s) ==
  IF s = <<>> THEN <<>>
  ELSE LET front == Dedupe(SubSeq(s, 1, Len(s) - 1))
           last == s[Len(s)]
       IN IF \E i \in 1..Len(front) : front[i] = last THEN front ELSE Append(front, last)

scoreCandidate(input, cfg) ==
  LET fundamentalsScore == scoreFundamentals(input.fundamentals, cfg.fundamentalsWeight)
      liquidityScore == scoreLiquidity(input.liquidityGate, cfg.liquidityWeight)
      volatilityQuality == scoreVolatilityQuality(input.impliedVol, input.ivChangeRate)
      volatilityScore == clamp((cfg.volatilityWeight * volatilityQuality.scoreMultiplier) \div 10000,
                               0, cfg.volatilityWeight * 100)
      technicalScore == scoreTechnical(input.trendScore, cfg.technicalWeight)
      eventScore == scoreEventRisk(input.eventRiskFlags, cfg.eventWeight)
      riskFlags == Dedupe(input.eventRiskFlags \o volatilityQuality.riskFlags)
      total == clamp(fundamentalsScore + liquidityScore + volatilityScore
                       + technicalScore + eventScore, 0, 10000)
      breakdown == [fundamentals |-> RoundHundredths(fundamentalsScore),
                    liquidity |-> RoundHundredths(liquidityScore),
                    volatility |-> RoundHundredths(volatilityScore),
                    trend |-> RoundHundredths(technicalScore),
                    eventRisk |-> RoundHundredths(eventScore),
                    total |-> RoundHundredths(total)]
  IN [total |-> breakdown.total,
      breakdown |-> breakdown,
      riskFlags |-> riskFlags,
      interpretation |-> interpretScore(breakdown.total)]

----------------------------------------------------------------------------
(* Inputs of the scoring engine *)

MaxFlags == 6

\* Market cap in millions of dollars; ratios and margins in hundredths.
FundamentalsOf(marketCap, returnOnEquity, debtToEquity, currentRatio) ==
  [marketCap |-> marketCap, returnOnEquity |-> returnOnEquity, netMargin |-> Some(10),
   debtToEquity |-> debtToEquity, currentRatio |-> currentRatio]

FundamentalsInputs ==
  {Null} \cup
  { Some(FundamentalsOf(mc, roe, de, cr)) :
      mc \in {Null, Some(3000), Some(20000)}, roe \in {Some(-5), Some(10)},
      de \in {Some(150), Some(300)}, cr \in {Some(80), Some(150)} }

LiquidityInputs ==
  {Null, Some([passed |-> TRUE, reasons |-> <<>>]),
   Some([passed |-> FALSE, reasons |-> <<"DISQUALIFIED_LOW_OPEN_INTEREST">>])}

AllRiskFlags ==
  <<"RISK_EARNINGS_WITHIN_TRADE", "RISK_MACRO_EVENT", "RISK_WIDE_SPREADS", "RISK_LOW_OI",
    "RISK_IV_SPIKE", "RISK_TREND_CONFLICT", "RISK_CORRELATED_EXPOSURE",
    "RISK_SECTOR_CONCENTRATION">>

ScoreInputs ==
  [fundamentals : FundamentalsInputs,
   liquidityGate : LiquidityInputs,
   impliedVol : {Null, Some(25), Some(35)},
   ivChangeRate : {Null, Some(25), Some(0), Some(-20)},
   trendScore : {Null, Some(-10), Some(0), Some(53), Some(100), Some(120)},
   eventRiskFlags : {SubSeq(AllRiskFlags, 1, n) : n \in 0..MaxFlags}]

NoScore == [total |-> 0]

IdleScore == scoreInput = Null /\ scoreResult = NoScore /\ scorePc = "idle"

InitScore ==
  /\ scoreInput \in {Some(i) : i \in ScoreInputs}
  /\ scoreResult = NoScore
  /\ scorePc = "call"

\* One call of scoreCandidate(input) with the default weights.
Score ==
  /\ scorePc = "call"
  /\ scoreResult' = scoreCandidate(Val(scoreInput), DEFAULT_SCORE_CONFIG)
  /\ scorePc' = "done"
  /\ UNCHANGED scoreInput
  /\ UNCHANGED <<strikeVars, qualifyVars, libVars>>

----------------------------------------------------------------------------
(* Event risk from the calendar: src/src/lib/scoring/event.ts (first part) *)

withinHorizon(daysToEvent, horizon) ==
  IF IsNull(daysToEvent) THEN FALSE
  ELSE Val(daysToEvent) >= 0 /\ Val(daysToEvent) <= horizon

\* The event scorer blind to the calendar.
calendarEventRiskBaseOnly(baseFlags, calendar, tradeDte) ==
  [scoreMultiplier |-> 100, riskFlags |-> Dedupe(baseFlags)]

\* scoreEventRisk(baseFlags, calendar, tradeDte) with the default penalties
\* (0.4 and 0.2); the multiplier in hundredths.
calendarEventRisk(baseFlags, calendar, tradeDte) ==
  LET earnings == /\ ~IsNull(calendar) /\ ~IsNull(tradeDte)
                  /\ withinHorizon(Val(calendar).earnings.daysToEarnings, Val(tradeDte))
      macro == ~IsNull(calendar) /\ Len(Val(calendar).macroEvents) > 0
  IN [scoreMultiplier |-> Max2(0, 100 - (IF earnings THEN 40 ELSE 0) - (IF macro THEN 20 ELSE 0)),
      riskFlags |-> Dedupe(baseFlags
                           \o (IF earnings THEN <<"RISK_EARNINGS_WITHIN_TRADE">> ELSE <<>>)
                           \o (IF macro THEN <<"RISK_MACRO_EVENT">> ELSE <<>>))]

\* The scoring engine as qualify calls it: its input also carries calendar
\* and tradeDte, its result also carries the volatility metrics.  The
\* calendar flags join eventRiskFlags before scoreCandidate counts them.
scoreCandidateWithCalendar(input) ==
  Bind(scoreCandidate(
         [fundamentals |-> input.fundamentals,
          liquidityGate |-> input.liquidityGate,
          impliedVol |-> input.impliedVol,
          ivChangeRate |-> input.ivChangeRate,
          trendScore |-> input.trendScore,
          eventRiskFlags |-> calendarEventRisk(input.eventRiskFlags, input.calendar,
                                               input.tradeDte).riskFlags],
         DEFAULT_SCORE_CONFIG),
    LAMBDA base :
      [total |-> base.total, breakdown |-> base.breakdown, riskFlags |-> base.riskFlags,
       interpretation |-> base.interpretation,
       volatility |-> scoreVolatilityQuality(input.impliedVol, input.ivChangeRate).metrics])

----------------------------------------------------------------------------
(* Liquidity gate: src/src/lib/explain/builder.ts (second part) *)

RECURSIVE ReduceNearest(_, _, _, _)
ReduceNearest(contracts, i, best, targetStrike) ==
  IF i > Len(contracts) THEN best
  ELSE ReduceNearest(contracts, i + 1,
         IF Abs(contracts[i].strike - targetStrike) < Abs(best.strike - targetStrike)
         THEN contracts[i] ELSE best,
         targetStrike)

RECURSIVE ReduceHighestOi(_, _, _)
ReduceHighestOi(contracts, i, best) ==
  IF i > Len(contracts) THEN best
  ELSE ReduceHighestOi(contracts, i + 1,
         IF contracts[i].openInterest > best.openInterest THEN contracts[i] ELSE best)

findNearestContract(contracts, targetStrike) ==
  IF Len(contracts) = 0 THEN Null
  ELSE IF IsNull(targetStrike) THEN Some(ReduceHighestOi(contracts, 2, contracts[1]))
  ELSE Some(ReduceNearest(contracts, 2, contracts[1], Val(targetStrike)))

\* The gate stopping at its first reason.
evaluateLiquidityGateFirstReason(avgDailyVolume, shortStrike, contracts) ==
  LET contract == findNearestContract(contracts, shortStrike)
      c == Val(contract)
      lowVolume == ~IsNull(avgDailyVolume) /\ Val(avgDailyVolume) < 1000000
      wideSpread == /\ ~IsNull(contract)
                    /\ c.bid + c.ask > 0
                    /\ 200 * (c.ask - c.bid) > 5 * (c.bid + c.ask)
      lowOi == ~IsNull(contract) /\ c.openInterest < 500
      reasons == IF lowVolume THEN <<"DISQUALIFIED_LOW_STOCK_LIQUIDITY">>
                 ELSE IF wideSpread THEN <<"DISQUALIFIED_WIDE_OPTIONS_SPREAD">>
                 ELSE IF lowOi THEN <<"DISQUALIFIED_LOW_OPEN_INTEREST">>
                 ELSE <<>>
  IN [passed |-> Len(reasons) = 0, reasons |-> reasons]

\* evaluateLiquidityGate under its default configuration: average volume at
\* least 1,000,000, spread at most 5% of mid, open interest at least 500.
evaluateLiquidityGate(avgDailyVolume, shortStrike, contracts) ==
  LET contract == findNearestContract(contracts, shortStrike)
      c == Val(contract)
      lowVolume == ~IsNull(avgDailyVolume) /\ Val(avgDailyVolume) < 1000000
      wideSpread == /\ ~IsNull(contract)
                    /\ c.bid + c.ask > 0
                    /\ 200 * (c.ask - c.bid) > 5 * (c.bid + c.ask)
      lowOi == ~IsNull(contract) /\ c.openInterest < 500
      reasons == (IF lowVolume THEN <<"DISQUALIFIED_LOW_STOCK_LIQUIDITY">> ELSE <<>>)
                 \o (IF wideSpread THEN <<"DISQUALIFIED_WIDE_OPTIONS_SPREAD">> ELSE <<>>)
                 \o (IF lowOi THEN <<"DISQUALIFIED_LOW_OPEN_INTEREST">> ELSE <<>>)
  IN [passed |-> Len(reasons) = 0, reasons |-> reasons]

----------------------------------------------------------------------------
(* Strategy selector: src/src/lib/strategy/selector.ts and the regime rule *)
(* of src/unnamed/part_005                                                 *)

deriveRegime(metrics) ==
  IF 100 * metrics.price > 103 * metrics.dma200 THEN "BULL"
  ELSE IF 100 * metrics.price < 97 * metrics.dma200 THEN "BEAR"
  ELSE "NEUTRAL"

\* Market cap in millions of dollars, ratios in hundredths.
isHoldable(fund) ==
  IF IsNull(fund) THEN FALSE
  ELSE LET f == Val(fund)
       IN /\ ~(~IsNull(f.marketCap) /\ Val(f.marketCap) < 5000)
          /\ ~(~IsNull(f.debtToEquity) /\ Val(f.debtToEquity) > 250)
          /\ ~(~IsNull(f.currentRatio) /\ Val(f.currentRatio) < 100)

\* The selector with "not both BEAR" in place of "neither is BEAR".
selectStrategiesNotBothBear(marketTrend, stockTrend, fund, preferDefinedRisk) ==
  LET marketRegime == deriveRegime(marketTrend)
      stockRegime == deriveRegime(stockTrend)
      assignmentEligible == isHoldable(fund)
      biasDefinedRisk == IF IsNull(preferDefinedRisk) THEN ~assignmentEligible
                         ELSE Val(preferDefinedRisk)
      bullishOrNeutral == marketRegime # "BEAR" \/ stockRegime # "BEAR"
      neutralOrBearish == marketRegime # "BULL" \/ stockRegime # "BULL"
  IN [strategies |-> (IF bullishOrNeutral THEN <<"PCS">> ELSE <<>>)
                     \o (IF bullishOrNeutral /\ ~biasDefinedRisk THEN <<"CSP">> ELSE <<>>)
                     \o (IF neutralOrBearish THEN <<"CCS">> ELSE <<>>)
                     \o (IF neutralOrBearish /\ ~biasDefinedRisk THEN <<"CC">> ELSE <<>>),
      marketRegime |-> marketRegime,
      stockRegime |-> stockRegime,
      assignmentEligible |-> assignmentEligible]

\* The selector with "neither is BULL" in place of "not both BULL".
selectStrategiesNeitherBull(marketTrend, stockTrend, fund, preferDefinedRisk) ==
  LET marketRegime == deriveRegime(marketTrend)
      stockRegime == deriveRegime(stockTrend)
      assignmentEligible == isHoldable(fund)
      biasDefinedRisk == IF IsNull(preferDefinedRisk) THEN ~assignmentEligible
                         ELSE Val(preferDefinedRisk)
      bullishOrNeutral == marketRegime # "BEAR" /\ stockRegime # "BEAR"
      neutralOrBearish == marketRegime # "BULL" /\ stockRegime # "BULL"
  IN [strategies |-> (IF bullishOrNeutral THEN <<"PCS">> ELSE <<>>)
                     \o (IF bullishOrNeutral /\ ~biasDefinedRisk THEN <<"CSP">> ELSE <<>>)
                     \o (IF neutralOrBearish THEN <<"CCS">> ELSE <<>>)
                     \o (IF neutralOrBearish /\ ~biasDefinedRisk THEN <<"CC">> ELSE <<>>),
      marketRegime |-> marketRegime,
      stockRegime |-> stockRegime,
      assignmentEligible |-> assignmentEligible]

selectStrategies(marketTrend, stockTrend, fund, preferDefinedRisk) ==
  LET marketRegime == deriveRegime(marketTrend)
      stockRegime == deriveRegime(stockTrend)
      assignmentEligible == isHoldable(fund)
      biasDefinedRisk == IF IsNull(preferDefinedRisk) THEN ~assignmentEligible
                         ELSE Val(preferDefinedRisk)
      bullishOrNeutral == marketRegime # "BEAR" /\ stockRegime # "BEAR"
      neutralOrBearish == marketRegime # "BULL" \/ stockRegime # "BULL"
  IN [strategies |-> (IF bullishOrNeutral THEN <<"PCS">> ELSE <<>>)
                     \o (IF bullishOrNeutral /\ ~biasDefinedRisk THEN <<"CSP">> ELSE <<>>)
                     \o (IF neutralOrBearish THEN <<"CCS">> ELSE <<>>)
                     \o (IF neutralOrBearish /\ ~biasDefinedRisk THEN <<"CC">> ELSE <<>>),
      marketRegime |-> marketRegime,
      stockRegime |-> stockRegime,
      assignmentEligible |-> assignmentEligible]

----------------------------------------------------------------------------
(* Expiration ranker: src/src/lib/expiry/ranker.ts.  A score is a whole    *)
(* number of 0.00001.                                                      *)

dteScore(dte) ==
  IF dte >= 30 /\ dte <= 60 THEN 10
  ELSE IF dte >= 25 /\ dte <= 70 THEN 6
  ELSE 2

\* clamp(0.6 * dteScore + 0.4 * (0.5 * thetaFactor + 0.5 * creditFactor)
\* - penalty, 0, 1) in units of 0.00001, where creditFactor =
\* clamp((credit / maxLoss) / 0.5, 0, 1) is cut to four decimals.
expirationScore(candidate) ==
  LET thetaFactor == clamp(candidate.thetaPerDay, 0, 100)
      creditFactor == IF candidate.maxLoss > 0
                      THEN clamp((2 * candidate.credit * 10000) \div candidate.maxLoss,
                                 0, 10000)
                      ELSE 0
      penalty == IF Len(candidate.riskFlags) > 0 THEN 15000 ELSE 0
  IN clamp(6000 * dteScore(candidate.dte) + 200 * thetaFactor + 2 * creditFactor - penalty,
           0, 100000)

\* The comparator of an ascending sort.
ScoreLess(a, b) == a < b

ScoreGreater(a, b) == a > b

Take(s, n) == SubSeq(s, 1, Min2(n, Len(s)))

rankExpirationsAll(cands) ==
  LET ranked == [i \in 1..Len(cands) |->
                   [expiration |-> cands[i].expiration, dte |-> cands[i].dte,
                    thetaPerDay |-> cands[i].thetaPerDay, credit |-> cands[i].credit,
                    maxLoss |-> cands[i].maxLoss, riskFlags |-> cands[i].riskFlags,
                    strategy |-> cands[i].strategy, score |-> expirationScore(cands[i])]]
  IN StableSort(ranked, LAMBDA a, b : ScoreGreater(a.score, b.score))

\* rankExpirations(candidates, {topN}): sort, then slice(0, topN).
rankExpirationsTop(cands, topN) == Take(rankExpirationsAll(cands), topN)

\* rankExpirations(candidates) with the default topN = 3.
rankExpirations(cands) == rankExpirationsTop(cands, 3)

----------------------------------------------------------------------------
(* Universe builder: src/src/lib/universe/builder.ts (first part) and the   *)
(* profile lookup of src/src/lib/providers/fmp.ts.  A ticker is the          *)
(* sequence of its characters.                                               *)

DEFAULT_MEME_TICKERS ==
  << <<"A", "M", "C">>,
     <<"G", "M", "E">>,
     <<"B", "B", "B", "Y">>,
     <<"B", "B">>,
     <<"K", "O", "S", "S">>,
     <<"N", "O", "K">>,
     <<"S", "N", "D", "L">>,
     <<"C", "L", "O", "V">>,
     <<"S", "P", "C", "E">>,
     <<"C", "V", "N", "A">>,
     <<"R", "I", "V", "N">>,
     <<"H", "O", "O", "D">>,
     <<"N", "K", "L", "A">> >>

\* The characters tickers are written with here, in UTF-16 code unit order.
Characters ==
  <<" ", "!", "-", ".", "A", "B", "C", "D", "E", "G", "H", "I", "K", "L",
    "M", "N", "O", "P", "R", "S", "V", "Y", "a", "b", "e", "g", "m">>

CharCode(ch) == CHOOSE i \in 1..Len(Characters) : Characters[i] = ch

\* String.prototype.toUpperCase, character by character.
UpperChar(ch) ==
  CASE ch = "a" -> "A" [] ch = "b" -> "B" [] ch = "e" -> "E" [] ch = "g" -> "G"
    [] ch = "m" -> "M" [] OTHER -> ch

\* String.prototype.trim.
RECURSIVE TrimStart(_)
TrimStart(t) == IF Len(t) > 0 /\ t[1] = " " THEN TrimStart(Tail(t)) ELSE t

RECURSIVE TrimEnd(_)
TrimEnd(t) ==
  IF Len(t) > 0 /\ t[Len(t)] = " " THEN TrimEnd(SubSeq(t, 1, Len(t) - 1)) ELSE t

normalizeTicker(t) == Map(TrimEnd(TrimStart(t)), UpperChar)

\* /^[A-Z0-9.\-]{1,8}$/ over the characters above.
isValidTicker(t) ==
  /\ Len(t) >= 1 /\ Len(t) <= 8
  /\ \A i \in 1..Len(t) :
       \/ t[i] \in {"-", "."}
       \/ CharCode(t[i]) >= CharCode("A") /\ CharCode(t[i]) <= CharCode("Y")

\* The default comparison of Array.prototype.sort: by code units, a proper
\* prefix first.
RECURSIVE TickerBefore(_, _)
TickerBefore(a, b) ==
  IF Len(b) = 0 THEN FALSE
  ELSE IF Len(a) = 0 THEN TRUE
  ELSE IF a[1] # b[1] THEN CharCode(a[1]) < CharCode(b[1])
  ELSE TickerBefore(Tail(a), Tail(b))

createReason(code, severity) == [code |-> code, severity |-> severity]

LowerCaseCountry(country) ==
  CASE country = "US" -> "us" [] country = "USA" -> "usa"
    [] country = "United States" -> "united states" [] OTHER -> country

isUsListing(country) ==
  IF IsNull(country) THEN FALSE
  ELSE LowerCaseCountry(Val(country)) \in {"us", "usa", "united states"}

\* Exchanges are written in upper case here; the ones whose name includes
\* "OTC" are OTC and OTCQX.
detectAdr(isAdr, currency, exchange) ==
  \/ isAdr = Some(TRUE)
  \/ ~IsNull(currency) /\ Val(currency) # "USD"
  \/ ~IsNull(exchange) /\ Val(exchange) \in {"OTC", "OTCQX"}

coerceString(value) == IF IsNull(value) \/ value \in {Some(""), Some(" ")} THEN Null ELSE value

\* FmpClient.getCompanyProfile: a failed request counts as an empty payload,
\* and the first row of the payload, or an empty row, is read field by field.
getCompanyProfile(payload) ==
  LET rows == IF IsNull(payload) THEN <<>> ELSE Val(payload)
      row == IF Len(rows) > 0 THEN rows[1]
             ELSE [companyName |-> Null, country |-> Null, exchange |-> Null,
                   exchangeShortName |-> Null, currency |-> Null, isAdr |-> Null]
  IN [companyName |-> coerceString(row.companyName),
      country |-> coerceString(row.country),
      exchange |-> coerceString(row.exchange),
      exchangeShortName |-> coerceString(row.exchangeShortName),
      currency |-> coerceString(row.currency),
      isAdr |-> row.isAdr]

\* Lines 133-144: profile stays null without an FMP client.
lookupProfile(payload, hasFmp) ==
  IF hasFmp THEN Some(getCompanyProfile(payload)) ELSE Null

RECURSIVE SumOf(_, _)
SumOf(contracts, field) ==
  IF Len(contracts) = 0 THEN 0 ELSE Head(contracts)[field] + SumOf(Tail(contracts), field)

\* The reasons of one round of the loop, for the profile, the average volume
\* and the option snapshot (null when it was not taken or the call raised)
\* the round found.
universeReasons(t, cfg, profile, avgVolume, snapshot) ==
  (IF ~isValidTicker(t) THEN <<createReason("INVALID_TICKER", "EXCLUDE")>> ELSE <<>>)
  \o (IF \E i \in 1..Len(cfg.memeTickers) : cfg.memeTickers[i] = t
      THEN <<createReason("MEME_RISK", "EXCLUDE")>> ELSE <<>>)
  \o (IF IsNull(profile) /\ ~cfg.allowUnknownProfile
      THEN <<createReason("UNKNOWN_PROFILE", "EXCLUDE")>> ELSE <<>>)
  \o (IF ~IsNull(profile) /\ ~isUsListing(Val(profile).country)
      THEN <<createReason("NON_US_LISTING", "EXCLUDE")>> ELSE <<>>)
  \o (IF /\ ~IsNull(profile)
         /\ detectAdr(Val(profile).isAdr, Val(profile).currency,
                      IF IsNull(Val(profile).exchangeShortName) THEN Val(profile).exchange
                      ELSE Val(profile).exchangeShortName)
      THEN <<createReason("ADR_OR_INTL", "EXCLUDE")>> ELSE <<>>)
  \o (IF ~IsNull(avgVolume) /\ Val(avgVolume) < cfg.minAvgDailyVolume
      THEN <<createReason("LOW_AVG_VOLUME", "EXCLUDE")>> ELSE <<>>)
  \o (IF /\ ~IsNull(snapshot)
         /\ \/ SumOf(Val(snapshot), "openInterest") < cfg.minOptionsOpenInterest
            \/ SumOf(Val(snapshot), "volume") < cfg.minOptionsVolume
      THEN <<createReason("LOW_OPTIONS_LIQUIDITY", "EXCLUDE")>> ELSE <<>>)
  \o (IF IsNull(snapshot) /\ ~cfg.allowUnknownOptionsLiquidity
      THEN <<createReason("UNKNOWN_OPTIONS_LIQUIDITY", "EXCLUDE")>> ELSE <<>>)

\* The decision of one round of the loop (lines 121-229).
decideTicker(t, cfg, keys, lookup) ==
  Bind(lookupProfile(lookup.profile, keys.fmp), LAMBDA profile :
    Bind(IF keys.fmp THEN lookup.avgVolume ELSE Null, LAMBDA avgVolume :
      Bind(IF cfg.useOptionsSnapshot /\ keys.alpaca THEN lookup.snapshot ELSE Null,
        LAMBDA snapshot :
          [ticker |-> t,
           reasons |-> universeReasons(t, cfg, profile, avgVolume, snapshot),
           metadata |-> [country |-> IF IsNull(profile) THEN Null ELSE Val(profile).country,
                         avgDailyVolume |-> avgVolume,
                         optionsLiquidityStatus |-> IF IsNull(snapshot) THEN "UNKNOWN"
                                                    ELSE "KNOWN"]])))

\* A rule that files every ticker under included.
isExcludedNever(decision) == FALSE

isExcluded(decision) ==
  \E i \in 1..Len(decision.reasons) : decision.reasons[i].severity = "EXCLUDE"

----------------------------------------------------------------------------
(* Explanation builder: src/src/lib/explain/builder.ts (first part).  An    *)
(* optional field of the input is absent, null or given; a bullet is named  *)
(* by what it reports.                                                      *)

Undefined == <<"undefined">>
JsNull == <<"null">>
Given(v) == <<"value", v>>
IsGiven(field) == field[1] = "value"
Got(field) == field[2]

\* Each step of buildWhyBullets: the bullets it pushes, or null when it
\* raises a TypeError reading a property of undefined or null.
\* Line 16: volatility?.iv !== null is true for an absent volatility.
volatilityBullets(input) ==
  IF ~IsGiven(input.volatility) THEN Null
  ELSE IF IsNull(Got(input.volatility).iv) THEN Some(<<>>)
  ELSE Some(<<"IV">>)

strikeBullets(input) ==
  IF ~IsGiven(input.strike) THEN <<>>
  ELSE IF IsGiven(input.underlyingPrice) /\ Got(input.underlyingPrice) > 0
       THEN <<"SHORT_STRIKE", "OTM">>
       ELSE <<"SHORT_STRIKE">>

\* Line 33: an absent tradeDte is not null.
dteBullets(input) == IF input.tradeDte = JsNull THEN <<>> ELSE <<"DTE">>

liquidityBullets(input) ==
  IF ~IsGiven(input.liquidity) THEN Null
  ELSE IF IsNull(Got(input.liquidity).diagnostics.avgDailyVolume) THEN Some(<<>>)
  ELSE Some(<<"AVERAGE_VOLUME">>)

fundamentalsBullets(input) ==
  IF ~IsGiven(input.fundamentals) THEN Null
  ELSE IF IsNull(Got(input.fundamentals).marketCap) THEN Some(<<>>)
  ELSE Some(<<"MARKET_CAP">>)

trendBullets(input) == IF IsGiven(input.trend) THEN <<"PRICE_VS_200DMA">> ELSE <<>>

calendarBullets(input) ==
  IF ~IsGiven(input.calendar) THEN Null
  ELSE IF IsNull(Got(input.calendar).earnings.daysToEarnings)
       THEN Some(<<"NO_UPCOMING_EARNINGS">>)
  ELSE IF Val(Got(input.calendar).earnings.daysToEarnings)
            > (IF IsGiven(input.tradeDte) THEN Got(input.tradeDte) ELSE 21)
       THEN Some(<<"NO_EARNINGS_WITHIN">>)
  ELSE Some(<<"EARNINGS_IN">>)

\* buildWhyBullets: null when a step raises.
buildWhyBullets(input) ==
  IF \/ IsNull(volatilityBullets(input)) \/ IsNull(liquidityBullets(input))
     \/ IsNull(fundamentalsBullets(input)) \/ IsNull(calendarBullets(input))
  THEN Null
  ELSE Some(Val(volatilityBullets(input)) \o strikeBullets(input) \o dteBullets(input)
            \o Val(liquidityBullets(input)) \o Val(fundamentalsBullets(input))
            \o trendBullets(input) \o Val(calendarBullets(input)))

\* Lines 80-88: the score sentence, then the baseline sentence, while fewer
\* than three bullets.
fillBullets(limited, hasScore) ==
  IF Len(limited) >= 3 THEN limited
  ELSE Bind(IF hasScore THEN Append(limited, "SCORE") ELSE limited,
            LAMBDA filled : IF Len(filled) < 3 THEN Append(filled, "BASELINE") ELSE filled)

\* Lines 67-75, reached with a calendar given.
explanationRiskFlags(input) ==
  Dedupe((IF IsGiven(input.riskFlags) THEN Got(input.riskFlags) ELSE <<>>)
         \o (IF Len(Got(input.calendar).macroEvents) > 0 THEN <<"RISK_MACRO_EVENT">>
             ELSE <<>>)
         \o (IF /\ ~IsNull(Got(input.calendar).earnings.daysToEarnings)
                /\ IsGiven(input.tradeDte)
                /\ Val(Got(input.calendar).earnings.daysToEarnings) <= Got(input.tradeDte)
             THEN <<"RISK_EARNINGS_WITHIN_TRADE">> ELSE <<>>))

\* buildExplanation: the result, or the TypeError it ends with.
buildExplanation(input) ==
  IF IsNull(buildWhyBullets(input))
  THEN [raised |-> TRUE, why |-> <<>>, riskFlags |-> <<>>]
  ELSE [raised |-> FALSE,
        why |-> Take(fillBullets(Take(Val(buildWhyBullets(input)), 6),
                                 IsGiven(input.score)), 6),
        riskFlags |-> explanationRiskFlags(input)]

----------------------------------------------------------------------------
(* Position sizing: src/src/lib/sizing/guardrail.ts.  allocationPct is the *)
(* pair <<numerator, denominator>>; the warning names the two rounded      *)
(* percentages.                                                            *)

\* Variant comparing with < where line 10 has <=.
evaluatePositionSizingStrictlyBelow(accountSize, requiredCollateral, maxAllocation) ==
  LET maxAllocationPct == IF IsNull(maxAllocation) THEN 5 ELSE Val(maxAllocation)
      allocationPct == IF accountSize > 0 THEN <<requiredCollateral, accountSize>> ELSE <<0, 1>>
      withinLimit == 100 * allocationPct[1] < maxAllocationPct * allocationPct[2]
  IN [requiredCollateral |-> requiredCollateral,
      accountSize |-> accountSize,
      allocationPct |-> allocationPct,
      maxAllocationPct |-> maxAllocationPct,
      withinLimit |-> withinLimit,
      warning |-> IF withinLimit THEN Null
                  ELSE Some([allocation |-> (200 * allocationPct[1] + allocationPct[2])
                                              \div (2 * allocationPct[2]),
                             limit |-> maxAllocationPct])]

evaluatePositionSizing(accountSize, requiredCollateral, maxAllocation) ==
  LET maxAllocationPct == IF IsNull(maxAllocation) THEN 5 ELSE Val(maxAllocation)
      allocationPct == IF accountSize > 0 THEN <<requiredCollateral, accountSize>> ELSE <<0, 1>>
      withinLimit == 100 * allocationPct[1] <= maxAllocationPct * allocationPct[2]
  IN [requiredCollateral |-> requiredCollateral,
      accountSize |-> accountSize,
      allocationPct |-> allocationPct,
      maxAllocationPct |-> maxAllocationPct,
      withinLimit |-> withinLimit,
      warning |-> IF withinLimit THEN Null
                  ELSE Some([allocation |-> (200 * allocationPct[1] + allocationPct[2])
                                              \div (2 * allocationPct[2]),
                             limit |-> maxAllocationPct])]

----------------------------------------------------------------------------
(* Qualify orchestrator: src/src/lib/qualify/qualify.ts.  A ticker is a    *)
(* number (tickers sort in numeric order); an expiration is named by its   *)
(* days to expiration, so calcDte always parses it.                        *)

calcDte(expiration) == Some(expiration)

filterContractsByExpiration(contracts, expiration) ==
  Filter(contracts, LAMBDA c : c.expiration = expiration)

\* Variant of the validity test that lets every strike result through.
StrikeIsUsableAlways(strike) == TRUE

\* strike.reasons.length > 0 makes buildExpirationCandidates return null and
\* the loop over the ranked expirations continue.
StrikeIsUsable(strike) == Len(strike.reasons) = 0

RECURSIVE FlattenSeq(_)
FlattenSeq(ss) ==
  IF ss = <<>> THEN <<>> ELSE FlattenSeq(SubSeq(ss, 1, Len(ss) - 1)) \o ss[Len(ss)]

\* The first strike search of buildExpirationCandidates, one per distinct
\* expiration of the chain in order of first appearance.
firstPass(contracts, price, strat) ==
  LET expirations == Dedupe([i \in 1..Len(contracts) |-> contracts[i].expiration])
  IN [i \in 1..Len(expirations) |->
        [expiration |-> expirations[i],
         dte |-> calcDte(expirations[i]),
         strike |-> findStrikeCandidate(
                      filterContractsByExpiration(contracts, expirations[i]),
                      price, strat, DEFAULT_CONFIG)]]

buildExpirationCandidates(contracts, price, strat, riskFlags) ==
  Map(Filter(firstPass(contracts, price, strat),
             LAMBDA r : ~IsNull(r.dte) /\ StrikeIsUsable(r.strike)),
      LAMBDA r : [expiration |-> r.expiration,
                  dte |-> Val(r.dte),
                  thetaPerDay |-> r.strike.thetaPerDay,
                  credit |-> r.strike.credit,
                  maxLoss |-> r.strike.maxLoss,
                  riskFlags |-> riskFlags,
                  strategy |-> strat])

\* The reason codes buildExpirationCandidates counts into strikeFailureCounts.
strikeFailures(contracts, price, strat) ==
  FlattenSeq(Map(Filter(firstPass(contracts, price, strat),
                        LAMBDA r : ~IsNull(r.dte) /\ ~StrikeIsUsable(r.strike)),
                 LAMBDA r : r.strike.reasons))

toTradeCandidate(ticker, strat, expiration, dte, strike, score) ==
  [ticker |-> ticker, strategy |-> strat, expiration |-> expiration, dte |-> dte,
   shortStrike |-> strike.shortStrike, longStrike |-> strike.longStrike,
   credit |-> strike.credit, maxLoss |-> strike.maxLoss, breakEven |-> strike.breakeven,
   pop |-> strike.pop, thetaPerDay |-> strike.thetaPerDay,
   shortDelta |-> IF IsNull(strike.shortDelta) THEN 0 ELSE Val(strike.shortDelta),
   iv |-> IF IsNull(score.volatility.iv) THEN 0 ELSE Val(score.volatility.iv),
   ivTrend |-> IF score.volatility.ivRegime = "EXPANDING" THEN "expanding"
               ELSE IF score.volatility.ivRegime = "CRUSHED" THEN "crushing" ELSE "stable",
   riskFlags |-> score.riskFlags,
   score |-> score.breakdown]

neutralTrend(price) ==
  [price |-> price, dma50 |-> price, dma100 |-> price, dma200 |-> price,
   distanceFrom200DmaPct |-> 0]

\* Variant that keeps only the best-ranked expiration.
rankedOfBestOnly(expirationCandidates) ==
  IF Len(expirationCandidates) = 0 THEN <<>> ELSE Take(rankExpirations(expirationCandidates), 1)

\* if (expirationCandidates.length === 0) continue; else rankExpirations
rankedOf(expirationCandidates) ==
  IF Len(expirationCandidates) = 0 THEN <<>> ELSE rankExpirations(expirationCandidates)

\* One round of the loop over the ranked expirations that reaches the push.
scoreTrade(ticker, strat, fund, avgVolume, calendar, rankedExpiration, slice, strike) ==
  toTradeCandidate(ticker, strat, rankedExpiration.expiration, rankedExpiration.dte, strike,
    scoreCandidateWithCalendar(
      [fundamentals |-> fund,
       liquidityGate |-> Some(evaluateLiquidityGate(avgVolume, Some(strike.shortStrike), slice)),
       impliedVol |-> IF Len(slice) = 0 THEN Null ELSE Some(slice[1].impliedVol),
       ivChangeRate |-> Null,
       trendScore |-> Null,
       eventRiskFlags |-> <<>>,
       calendar |-> calendar,
       tradeDte |-> Some(rankedExpiration.dte)]))

\* The body of the loop over selection.strategies for one strategy.
tradesForStrategy(ticker, strat, fund, price, avgVolume, contracts, calendar) ==
  Map(Filter(Map(rankedOf(buildExpirationCandidates(contracts, price, strat, <<>>)),
                 LAMBDA rankedExpiration :
                   [rankedExpiration |-> rankedExpiration,
                    slice |-> filterContractsByExpiration(contracts,
                                                          rankedExpiration.expiration),
                    strike |-> findStrikeCandidate(
                                 filterContractsByExpiration(contracts,
                                                             rankedExpiration.expiration),
                                 price, strat, DEFAULT_CONFIG)]),
             LAMBDA r : StrikeIsUsable(r.strike)),
      LAMBDA r : scoreTrade(ticker, strat, fund, avgVolume, calendar,
                            r.rankedExpiration, r.slice, r.strike))

\* tradeCandidates after the loop over selection.strategies.
tradeCandidatesOf(ticker, fund, price, avgVolume, contracts, calendar, preferDefinedRisk) ==
  FlattenSeq(Map(selectStrategies(neutralTrend(price), neutralTrend(price), fund,
                                  preferDefinedRisk).strategies,
                 LAMBDA strat : tradesForStrategy(ticker, strat, fund, price, avgVolume,
                                                  contracts, calendar)))

\* <<code, count>> for each distinct code, in order of first occurrence.
tally(codes) ==
  Map(Dedupe(codes),
      LAMBDA code : <<code, Cardinality({j \in 1..Len(codes) : codes[j] = code})>>)

\* strikeFailureCounts after the loop, in order of insertion.
strikeFailureCounts(fund, price, contracts, preferDefinedRisk) ==
  tally(FlattenSeq(Map(selectStrategies(neutralTrend(price), neutralTrend(price), fund,
                                        preferDefinedRisk).strategies,
                       LAMBDA strat : strikeFailures(contracts, price, strat))))

\* The reason given to a ticker with no trade candidate: the two most
\* frequent failure codes with their counts.
noStrikesReason(counts) ==
  LET top == Take(StableSort(counts, LAMBDA a, b : a[2] > b[2]), 2)
  IN IF Len(top) > 0
     THEN [message |-> "No valid strikes found.", summary |-> top]
     ELSE [message |-> "No valid strikes found within DTE window.", summary |-> <<>>]

PlainReason(message) == [message |-> message, summary |-> <<>>]

\* Variant of pickBest that sorts ascending.
pickBestAscending(tradeCandidates) ==
  StableSort(tradeCandidates, LAMBDA a, b : a.score.total < b.score.total)[1]

\* tradeCandidates.sort((a, b) => b.score.total - a.score.total)[0]
pickBest(tradeCandidates) ==
  StableSort(tradeCandidates, LAMBDA a, b : a.score.total > b.score.total)[1]

\* Variant of rankCandidates that leaves the list as collected.
rankCandidatesUnsorted(cands) == cands

\* candidates.sort by candidate.score.total, descending
rankCandidates(cands) ==
  StableSort(cands, LAMBDA a, b : a.candidate.score.total > b.candidate.score.total)

\* Variant that ignores the request's maxCandidates.
maxCandidatesAlwaysDefault(req) == 25

\* request.maxCandidates ?? 25
maxCandidatesOf(req) ==
  IF IsNull(req.maxCandidates) THEN 25 ELSE Val(req.maxCandidates)

\* The statements after the loop: rank, slice and return.
finishRun(req, cands, disq) ==
  [candidates |-> Take(rankCandidates(cands), maxCandidatesOf(req)),
   disqualified |-> disq]

----------------------------------------------------------------------------
(* Inputs of qualify: the request and what the providers may answer *)

MaxTickers == 3

Holdable == FundamentalsOf(Some(20000), Some(10), Some(150), Some(150))
NotHoldable == FundamentalsOf(Some(3000), Some(10), Some(300), Some(80))
FundamentalsResponses == {Holdable, NotHoldable}

QuoteResponses ==
  { [price |-> Null, avgVolume |-> Null],
    [price |-> Some(0), avgVolume |-> Some(2000000)],
    [price |-> Some(16000), avgVolume |-> Some(2000000)] }

TradeResponses == {[price |-> 0], [price |-> 16000]}

LatestQuoteResponses ==
  {[bidPrice |-> 0, askPrice |-> 0], [bidPrice |-> 15990, askPrice |-> 16010]}

At(contract, expiration, openInterest, impliedVol) ==
  [contract EXCEPT !.expiration = expiration, !.openInterest = openInterest,
                   !.impliedVol = impliedVol]

\* Two expirations with a valid put spread, call spread, cash-secured put
\* and covered call each; the nearer one is more liquid and has lower IV.
ChainTwoExpirations ==
  << Contract("P135", "put", 13500, 150, 155, 300, Some(-20)),
     Contract("P130", "put", 13000, 60, 62, 300, Some(-15)),
     Contract("C170", "call", 17000, 100, 104, 300, Some(18)),
     Contract("C175", "call", 17500, 20, 22, 300, Some(12)),
     At(Contract("P135n", "put", 13500, 150, 152, 300, Some(-20)), 20, 600, 25),
     At(Contract("P130n", "put", 13000, 60, 62, 300, Some(-15)), 20, 600, 25) >>

\* One expiration whose put spread fails the credit-to-width floor and that
\* has no calls.
ChainPoorCredit == <<FixtureA, FixtureB>>

ChainResponses == {<<>>, ChainTwoExpirations, ChainPoorCredit}

CalendarResponses ==
  { [earnings |-> [daysToEarnings |-> Null], macroEvents |-> <<>>],
    [earnings |-> [daysToEarnings |-> Some(40)], macroEvents |-> <<>>],
    [earnings |-> [daysToEarnings |-> Null], macroEvents |-> <<"CPI">>] }

Requests ==
  [tickers : {[i \in 1..n |-> i] : n \in 0..MaxTickers},
   accountSize : {200000},
   preferDefinedRisk : {Null, Some(TRUE)},
   maxPerTradePct : {Null},
   maxCandidates : {Null, Some(1)}]

IdleQualify ==
  /\ request = Null /\ qPc = "idle" /\ included = <<>> /\ idx = 0
  /\ fundamentals = Null /\ resolvedPrice = Null /\ resolvedAvgVolume = Null
  /\ tickerChain = Null /\ candidates = <<>> /\ disqualified = <<>> /\ response = Null
  /\ built = <<>> /\ raised = <<>>

InitQualify ==
  /\ request \in {Some(r) : r \in Requests}
  /\ qPc = "universe" /\ included = <<>> /\ idx = 0
  /\ fundamentals = Null /\ resolvedPrice = Null /\ resolvedAvgVolume = Null
  /\ tickerChain = Null /\ candidates = <<>> /\ disqualified = <<>> /\ response = Null
  /\ built = <<>> /\ raised = <<>>

----------------------------------------------------------------------------
(* Steps of qualify: one per provider answer, each running the code up to  *)
(* the next await.                                                         *)

ticker == included[idx]

\* The current ticker is finished with the two lists as given: the loop
\* moves to the next ticker, or ends and the response is returned.
Advance(newCandidates, newDisqualified) ==
  /\ disqualified' = newDisqualified
  /\ fundamentals' = Null /\ resolvedPrice' = Null /\ resolvedAvgVolume' = Null
  /\ tickerChain' = Null
  /\ IF idx' > Len(included')
     THEN /\ qPc' = "done"
          /\ candidates' = rankCandidates(newCandidates)
          /\ response' = Some(finishRun(Val(request), newCandidates, newDisqualified))
     ELSE /\ qPc' = "fundamentals"
          /\ candidates' = newCandidates
          /\ response' = Null

\* Variant of Disqualify that starts the list over.
DisqualifyDroppingEarlier(reason) ==
  Advance(candidates, <<[ticker |-> ticker, reasons |-> <<reason>>]>>)

\* disqualified.push({ ticker, reasons: [reason] }); continue
Disqualify(reason) ==
  Advance(candidates, Append(disqualified, [ticker |-> ticker, reasons |-> <<reason>>]))

\* buildUniverse returns: every excluded ticker is disqualified with its
\* reason messages, the loop starts on the first included ticker.
UniverseBuilt ==
  /\ qPc = "universe"
  /\ \E excluded \in SUBSET {Val(request).tickers[i] : i \in 1..Len(Val(request).tickers)} :
       /\ included' = Filter(Val(request).tickers, LAMBDA t : t \notin excluded)
       /\ idx' = 1
       /\ Advance(<<>>,
                  LET out == Filter(Val(request).tickers, LAMBDA t : t \in excluded)
                  IN [i \in 1..Len(out) |->
                        [ticker |-> out[i],
                         reasons |-> <<PlainReason("Company profile unavailable.")>>]])
  /\ UNCHANGED <<request, built, raised>>
  /\ UNCHANGED <<strikeVars, scoreVars, libVars>>

\* buildUniverse or a provider constructor raises: qualify rejects.
QualifyRejects ==
  /\ qPc = "universe"
  /\ qPc' = "failed"
  /\ UNCHANGED <<request, included, idx, fundamentals, resolvedPrice, resolvedAvgVolume,
                 tickerChain, candidates, disqualified, response, built, raised>>
  /\ UNCHANGED <<strikeVars, scoreVars, libVars>>

FundamentalsReturn ==
  /\ qPc = "fundamentals"
  /\ \E f \in FundamentalsResponses : fundamentals' = Some(f)
  /\ qPc' = "quote"
  /\ UNCHANGED <<request, included, idx, resolvedPrice, resolvedAvgVolume, tickerChain,
                 candidates, disqualified, response, built, raised>>
  /\ UNCHANGED <<strikeVars, scoreVars, libVars>>

\* Variant that takes any price the quote carries.
PriceMissingOnlyNull(price) == IsNull(price)

\* !resolvedPrice || resolvedPrice <= 0
PriceMissing(price) == IsNull(price) \/ Val(price) <= 0

QuoteReturns ==
  /\ qPc = "quote"
  /\ \E quote \in QuoteResponses :
       /\ resolvedPrice' = quote.price
       /\ resolvedAvgVolume' = quote.avgVolume
       /\ qPc' = IF PriceMissing(quote.price) THEN "latestTrade" ELSE "chain"
  /\ UNCHANGED <<request, included, idx, fundamentals, tickerChain, candidates,
                 disqualified, response, built, raised>>
  /\ UNCHANGED <<strikeVars, scoreVars, libVars>>

LatestTradeReturns ==
  /\ qPc = "latestTrade"
  /\ \E trade \in TradeResponses :
       IF trade.price > 0
       THEN /\ resolvedPrice' = Some(trade.price)
            /\ qPc' = "chain"
       ELSE /\ resolvedPrice' = resolvedPrice
            /\ qPc' = "latestQuote"
  /\ UNCHANGED <<request, included, idx, fundamentals, resolvedAvgVolume, tickerChain,
                 candidates, disqualified, response, built, raised>>
  /\ UNCHANGED <<strikeVars, scoreVars, libVars>>

LatestQuoteReturns ==
  /\ qPc = "latestQuote"
  /\ \E latestQuote \in LatestQuoteResponses :
       LET midpoint == IF latestQuote.bidPrice > 0 /\ latestQuote.askPrice > 0
                       THEN (latestQuote.bidPrice + latestQuote.askPrice) \div 2 ELSE 0
       IN IF midpoint > 0
          THEN /\ resolvedPrice' = Some(midpoint)
               /\ qPc' = "chain"
               /\ UNCHANGED <<included, idx, fundamentals, resolvedAvgVolume, tickerChain,
                              candidates, disqualified, response>>
          ELSE /\ idx' = idx + 1
               /\ included' = included
               /\ Disqualify(PlainReason("Missing price data."))
  /\ UNCHANGED <<request, built, raised>>
  /\ UNCHANGED <<strikeVars, scoreVars, libVars>>

\* getLatestTrade or getLatestQuote raises: the inner catch ignores it and
\* the price is still missing.
AlpacaFallbackRaises ==
  /\ qPc \in {"latestTrade", "latestQuote"}
  /\ raised' = Append(raised, [ticker |-> ticker, message |-> "Alpaca API error (500)",
                               swallowed |-> TRUE])
  /\ idx' = idx + 1
  /\ included' = included
  /\ Disqualify(PlainReason("Missing price data."))
  /\ UNCHANGED <<request, built>>
  /\ UNCHANGED <<strikeVars, scoreVars, libVars>>

ChainReturns ==
  /\ qPc = "chain"
  /\ \E contracts \in ChainResponses : tickerChain' = Some(contracts)
  /\ qPc' = "calendar"
  /\ UNCHANGED <<request, included, idx, fundamentals, resolvedPrice, resolvedAvgVolume,
                 candidates, disqualified, response, built, raised>>
  /\ UNCHANGED <<strikeVars, scoreVars, libVars>>

\* The end of the loop body: the disqualification for no trade candidate,
\* or the best candidate pushed with its sizing.
settleTicker(tradeCandidates, failureCounts, calendar) ==
  /\ built' = Append(built, [ticker |-> ticker, price |-> Val(resolvedPrice),
                             avgVolume |-> resolvedAvgVolume,
                             contracts |-> Val(tickerChain),
                             strategies |-> selectStrategies(
                                              neutralTrend(Val(resolvedPrice)),
                                              neutralTrend(Val(resolvedPrice)), fundamentals,
                                              Val(request).preferDefinedRisk).strategies,
                             calendar |-> IF Len(tradeCandidates) = 0 THEN Null
                                          ELSE Some(calendar),
                             tradeCandidates |-> tradeCandidates])
  /\ idx' = idx + 1
  /\ included' = included
  /\ IF Len(tradeCandidates) = 0
     THEN Disqualify(noStrikesReason(failureCounts))
     ELSE Bind(pickBest(tradeCandidates), LAMBDA best :
            Bind(evaluatePositionSizing(Val(request).accountSize, best.maxLoss,
                                        Val(request).maxPerTradePct),
              LAMBDA sizing :
                Advance(Append(candidates,
                          [ticker |-> ticker, candidate |-> best,
                           sizing |-> [requiredCollateral |-> sizing.requiredCollateral,
                                       allocationPct |-> sizing.allocationPct,
                                       withinLimit |-> sizing.withinLimit,
                                       warning |-> sizing.warning]]),
                        disqualified)))

\* getCalendarSnapshot returns: strategies, strikes, ranking, scoring, the
\* best candidate and its sizing, or the disqualification for no strikes.
CalendarReturns ==
  /\ qPc = "calendar"
  /\ \E calendar \in CalendarResponses :
       settleTicker(
         tradeCandidatesOf(ticker, fundamentals, Val(resolvedPrice), resolvedAvgVolume,
                           Val(tickerChain), Some(calendar), Val(request).preferDefinedRisk),
         strikeFailureCounts(fundamentals, Val(resolvedPrice), Val(tickerChain),
                             Val(request).preferDefinedRisk),
         calendar)
  /\ UNCHANGED <<request, raised>>
  /\ UNCHANGED <<strikeVars, scoreVars, libVars>>

\* getOptionChainSnapshot or getCalendarSnapshot raises (the FMP client turns
\* its own request failures into empty payloads): the catch of the loop body
\* disqualifies the ticker with the error message.
ProviderRaises ==
  /\ qPc \in {"chain", "calendar"}
  /\ LET message == IF qPc = "chain" THEN "Alpaca API error (500)" ELSE "fetch failed"
     IN /\ raised' = Append(raised, [ticker |-> ticker, message |-> message,
                                     swallowed |-> FALSE])
        /\ idx' = idx + 1
        /\ included' = included
        /\ Disqualify(PlainReason(message))
  /\ UNCHANGED <<request, built>>
  /\ UNCHANGED <<strikeVars, scoreVars, libVars>>

NextQualify ==
  \/ UniverseBuilt
  \/ QualifyRejects
  \/ FundamentalsReturn
  \/ QuoteReturns
  \/ LatestTradeReturns
  \/ LatestQuoteReturns
  \/ AlpacaFallbackRaises
  \/ ChainReturns
  \/ CalendarReturns
  \/ ProviderRaises

----------------------------------------------------------------------------
(* One call of selectStrategies: src/src/lib/strategy/selector.ts *)

\* Trend metrics around the two regime thresholds of a 200-day average of
\* 100.00: below 0.97, on 0.97, between, on 1.03, above 1.03.
TrendInputs ==
  { [price |-> p, dma50 |-> 10000, dma100 |-> 10000, dma200 |-> 10000,
     distanceFrom200DmaPct |-> 0] : p \in {9600, 9700, 10000, 10300, 10400} }

\* Fundamentals on and just past each threshold of the holdability gate,
\* with unknown fields, and missing altogether.
SelectFundamentals ==
  { Null,
    Some(FundamentalsOf(Some(5000), Some(20), Some(250), Some(100))),
    Some(FundamentalsOf(Some(4999), Some(20), Some(250), Some(100))),
    Some(FundamentalsOf(Some(5000), Some(20), Some(251), Some(100))),
    Some(FundamentalsOf(Some(5000), Some(20), Some(250), Some(99))),
    Some(FundamentalsOf(Null, Null, Null, Null)) }

SelectionInputs ==
  [marketTrend : TrendInputs, stockTrend : TrendInputs, fundamentals : SelectFundamentals,
   preferDefinedRisk : {Null, Some(TRUE), Some(FALSE)}]

NoSelection ==
  [strategies |-> <<>>, marketRegime |-> "NEUTRAL", stockRegime |-> "NEUTRAL",
   assignmentEligible |-> FALSE]

IdleSelect == selectInput = Null /\ selection = NoSelection /\ selectPc = "idle"

InitSelect ==
  /\ selectInput \in {Some(i) : i \in SelectionInputs}
  /\ selection = NoSelection
  /\ selectPc = "call"

Select ==
  /\ selectPc = "call"
  /\ selection' = selectStrategies(Val(selectInput).marketTrend, Val(selectInput).stockTrend,
                                   Val(selectInput).fundamentals,
                                   Val(selectInput).preferDefinedRisk)
  /\ selectPc' = "done"
  /\ UNCHANGED selectInput
  /\ UNCHANGED <<strikeVars, scoreVars, qualifyVars>>
  /\ UNCHANGED <<rankVars, gateVars, universeVars, explainVars,
               sizingVars,
               concentrationVars,
               retryVars,
               cacheVars>>

----------------------------------------------------------------------------
(* One call of rankExpirations: src/src/lib/expiry/ranker.ts *)

MaxExpirations == 4

ExpirationOf(expiration, dte, thetaPerDay, credit, maxLoss, riskFlags) ==
  [expiration |-> expiration, dte |-> dte, thetaPerDay |-> thetaPerDay, credit |-> credit,
   maxLoss |-> maxLoss, riskFlags |-> riskFlags, strategy |-> "PCS"]

\* Expirations inside the 30-60 window (two of them with equal scores), in
\* the soft band, outside both, with an event flag, with theta and credit
\* past their caps, and with nothing to earn.
ExpirationPool ==
  { ExpirationOf("E30", 30, 5, 100, 400, <<>>),
    ExpirationOf("E60", 60, 5, 100, 400, <<>>),
    ExpirationOf("E45", 45, 8, 120, 380, <<"RISK_EARNINGS_WITHIN_TRADE">>),
    ExpirationOf("E27", 27, 5, 100, 400, <<>>),
    ExpirationOf("E20", 20, 3, 90, 410, <<>>),
    ExpirationOf("E80", 80, 150, 300, 400, <<>>),
    ExpirationOf("E10", 10, -5, 0, 0, <<"RISK_MACRO_EVENT">>) }

\* One candidate per expiration, as buildExpirationCandidates produces them.
ExpirationLists ==
  { s \in SeqsUpTo(ExpirationPool, MaxExpirations) :
      \A i, j \in 1..Len(s) : i # j => s[i].expiration # s[j].expiration }

IdleRank == rankInput = <<>> /\ rankTopN = 0 /\ rankedTop = <<>> /\ rankPc = "idle"

InitRank ==
  /\ rankInput \in ExpirationLists
  /\ rankTopN \in 0..MaxExpirations
  /\ rankedTop = <<>>
  /\ rankPc = "call"

Rank ==
  /\ rankPc = "call"
  /\ rankedTop' = rankExpirationsTop(rankInput, rankTopN)
  /\ rankPc' = "done"
  /\ UNCHANGED <<rankInput, rankTopN>>
  /\ UNCHANGED <<strikeVars, scoreVars, qualifyVars>>
  /\ UNCHANGED <<selectVars, gateVars, universeVars, explainVars,
               sizingVars,
               concentrationVars,
               retryVars,
               cacheVars>>

----------------------------------------------------------------------------
(* One call of evaluateLiquidityGate: src/src/lib/explain/builder.ts *)

MaxGateContracts == 3

\* Contracts on and past each threshold: a spread of exactly 5% of mid and
\* open interest of exactly 500, a wider spread on the same strike, no
\* quotes at all with open interest 499, both faults together, and a tight
\* market with the highest open interest.
GateContractPool ==
  { Contract("G1", "put", 13500, 39, 41, 500, Some(-20)),
    Contract("G2", "put", 13500, 38, 41, 700, Some(-20)),
    Contract("G3", "put", 13000, 0, 0, 499, Some(-12)),
    Contract("G4", "put", 14000, 100, 120, 100, Some(-30)),
    Contract("G5", "put", 13400, 150, 152, 900, Some(-19)) }

GateInputs ==
  [avgDailyVolume : {Null, Some(500000), Some(999999), Some(1000000)},
   shortStrike : {Null, Some(13500), Some(13200)},
   contracts : SeqsUpTo(GateContractPool, MaxGateContracts)]

NoGate == [passed |-> FALSE, reasons |-> <<"NONE">>]

IdleGate == gateInput = Null /\ gateResult = NoGate /\ gatePc = "idle"

InitGate ==
  /\ gateInput \in {Some(i) : i \in GateInputs}
  /\ gateResult = NoGate
  /\ gatePc = "call"

EvaluateGate ==
  /\ gatePc = "call"
  /\ gateResult' = evaluateLiquidityGate(Val(gateInput).avgDailyVolume,
                                         Val(gateInput).shortStrike,
                                         Val(gateInput).contracts)
  /\ gatePc' = "done"
  /\ UNCHANGED gateInput
  /\ UNCHANGED <<strikeVars, scoreVars, qualifyVars>>
  /\ UNCHANGED <<selectVars, rankVars, universeVars, explainVars,
               sizingVars,
               concentrationVars,
               retryVars,
               cacheVars>>

----------------------------------------------------------------------------
(* One run of buildUniverse: src/src/lib/universe/builder.ts *)

MaxInputTickers == 2

\* Lower case, a trailing blank, a meme ticker and an invalid character.
RawTickers == { <<"a">>, <<"A", " ">>, <<"B">>, <<"g", "m", "e">>, <<"!">> }

UNIVERSE_DEFAULT_CONFIG ==
  [minAvgDailyVolume |-> 1000000, minOptionsOpenInterest |-> 500, minOptionsVolume |-> 500,
   allowUnknownOptionsLiquidity |-> TRUE, useOptionsSnapshot |-> FALSE,
   allowUnknownProfile |-> FALSE, memeTickers |-> DEFAULT_MEME_TICKERS]

\* The merged configuration: both values of allowUnknownProfile with the
\* option settings of qualify, with the snapshot on and unknown liquidity
\* refused, and with the snapshot off and unknown liquidity refused.
UniverseConfigs ==
  { [UNIVERSE_DEFAULT_CONFIG EXCEPT !.allowUnknownProfile = p,
                                    !.useOptionsSnapshot = o[1],
                                    !.allowUnknownOptionsLiquidity = o[2]] :
      p \in BOOLEAN, o \in {<<FALSE, TRUE>>, <<TRUE, FALSE>>, <<FALSE, FALSE>>} }

UniverseRequests ==
  [source : {"MANUAL", "RECOMMENDED"},
   tickers : SeqsUpTo(RawTickers, MaxInputTickers),
   config : UniverseConfigs]

ProfileRow(country, exchangeShortName, currency, isAdr) ==
  [companyName |-> Some("Company"), country |-> country, exchange |-> Null,
   exchangeShortName |-> exchangeShortName, currency |-> currency, isAdr |-> isAdr]

ThinSnapshot == <<[openInterest |-> 300, volume |-> 600], [openInterest |-> 100, volume |-> 30]>>
DeepSnapshot == <<[openInterest |-> 300, volume |-> 600], [openInterest |-> 200, volume |-> 30]>>

\* What the providers answer for one ticker: the payload of the profile
\* request (null when the request fails), the average volume of the quote,
\* and the contracts of the option snapshot (null when the call raises).
Lookups ==
  { [profile |-> Some(<<ProfileRow(Some("US"), Some("NASDAQ"), Some("USD"), Some(FALSE))>>),
     avgVolume |-> Some(1000000), snapshot |-> Some(DeepSnapshot)],
    [profile |-> Null, avgVolume |-> Null, snapshot |-> Null],
    [profile |-> Some(<<>>), avgVolume |-> Some(1000000), snapshot |-> Some(DeepSnapshot)],
    [profile |-> Some(<<ProfileRow(Some("CA"), Some("TSX"), Some("CAD"), Null)>>),
     avgVolume |-> Some(999999), snapshot |-> Some(ThinSnapshot)],
    [profile |-> Some(<<ProfileRow(Some("United States"), Some("OTC"), Some("USD"), Null)>>),
     avgVolume |-> Some(1000000), snapshot |-> Some(DeepSnapshot)],
    [profile |-> Some(<<ProfileRow(Some("USA"), Some("NYSE"), Some(" "), Some(FALSE))>>),
     avgVolume |-> Some(999999), snapshot |-> Null] }

\* The index constituents an FMP client returns for a recommended universe.
Recommended == { <<>>, <<<<"B">>>> }

IdleUniverse ==
  /\ universeRequest = Null /\ apiKeys = [fmp |-> FALSE, alpaca |-> FALSE]
  /\ sourceTickers = <<>> /\ normalizedTickers = <<>> /\ universeIdx = 0
  /\ universeIncluded = <<>> /\ universeExcluded = <<>> /\ universePc = "idle"
  /\ lookups = <<>>

InitUniverse ==
  /\ universeRequest \in {Some(r) : r \in UniverseRequests}
  /\ apiKeys \in [fmp : BOOLEAN, alpaca : BOOLEAN]
  /\ sourceTickers = <<>> /\ normalizedTickers = <<>> /\ universeIdx = 0
  /\ universeIncluded = <<>> /\ universeExcluded = <<>> /\ universePc = "start"
  /\ lookups = <<>>

\* Lines 95-107 with a source of tickers resolved.
sortedTickers(source) == StableSort(Dedupe(Map(source, normalizeTicker)), TickerBefore)

\* Lines 82-119, source MANUAL or RECOMMENDED with an FMP client: the
\* source tickers are normalized, deduplicated and sorted.
UniverseStart ==
  /\ universePc = "start"
  /\ Val(universeRequest).source = "RECOMMENDED" => apiKeys.fmp
  /\ \E recommended \in Recommended :
       /\ Val(universeRequest).source = "MANUAL" => recommended = <<>>
       /\ sourceTickers' = recommended \o Val(universeRequest).tickers
       /\ normalizedTickers' = sortedTickers(recommended \o Val(universeRequest).tickers)
  /\ universeIdx' = 1
  /\ universePc' = "loop"
  /\ UNCHANGED <<universeRequest, apiKeys, universeIncluded, universeExcluded, lookups>>
  /\ UNCHANGED <<strikeVars, scoreVars, qualifyVars>>
  /\ UNCHANGED <<selectVars, rankVars, gateVars, explainVars,
               sizingVars,
               concentrationVars,
               retryVars,
               cacheVars>>

\* Lines 96-99: a recommended universe without an FMP client raises.
UniverseRaises ==
  /\ universePc = "start"
  /\ Val(universeRequest).source = "RECOMMENDED" /\ ~apiKeys.fmp
  /\ universePc' = "failed"
  /\ UNCHANGED <<universeRequest, apiKeys, sourceTickers, normalizedTickers, universeIdx,
                 universeIncluded, universeExcluded, lookups>>
  /\ UNCHANGED <<strikeVars, scoreVars, qualifyVars>>
  /\ UNCHANGED <<selectVars, rankVars, gateVars, explainVars,
               sizingVars,
               concentrationVars,
               retryVars,
               cacheVars>>

\* One round of the loop over normalizedTickers (lines 121-237).
UniverseTicker ==
  /\ universePc = "loop"
  /\ universeIdx <= Len(normalizedTickers)
  /\ \E lookup \in Lookups :
       /\ lookups' = Append(lookups, lookup)
       /\ Bind(decideTicker(normalizedTickers[universeIdx], Val(universeRequest).config,
                            apiKeys, lookup),
               LAMBDA decision :
                 IF isExcluded(decision)
                 THEN /\ universeExcluded' = Append(universeExcluded, decision)
                      /\ universeIncluded' = universeIncluded
                 ELSE /\ universeIncluded' = Append(universeIncluded, decision)
                      /\ universeExcluded' = universeExcluded)
  /\ universeIdx' = universeIdx + 1
  /\ UNCHANGED <<universeRequest, apiKeys, sourceTickers, normalizedTickers, universePc>>
  /\ UNCHANGED <<strikeVars, scoreVars, qualifyVars>>
  /\ UNCHANGED <<selectVars, rankVars, gateVars, explainVars,
               sizingVars,
               concentrationVars,
               retryVars,
               cacheVars>>

\* Line 239: the loop is over, the two lists are returned.
UniverseReturns ==
  /\ universePc = "loop"
  /\ universeIdx > Len(normalizedTickers)
  /\ universePc' = "done"
  /\ UNCHANGED <<universeRequest, apiKeys, sourceTickers, normalizedTickers, universeIdx,
                 universeIncluded, universeExcluded, lookups>>
  /\ UNCHANGED <<strikeVars, scoreVars, qualifyVars>>
  /\ UNCHANGED <<selectVars, rankVars, gateVars, explainVars,
               sizingVars,
               concentrationVars,
               retryVars,
               cacheVars>>

----------------------------------------------------------------------------
(* One call of buildExplanation: src/src/lib/explain/builder.ts *)

\* Every optional field absent, null where the type allows it, and given
\* with its own nullable part null or set.
ExplanationInputs ==
  [score : {Undefined, Given([total |-> 70])},
   underlyingPrice : {Undefined, Given(16000)},
   volatility : {Undefined, JsNull, Given([iv |-> Null, ivRegime |-> "UNKNOWN"]),
                 Given([iv |-> Some(30), ivRegime |-> "STABLE"])},
   strike : {JsNull, Given([shortStrike |-> 13500, shortDelta |-> Some(-20)])},
   liquidity : {Undefined, Given([diagnostics |-> [avgDailyVolume |-> Null]]),
                Given([diagnostics |-> [avgDailyVolume |-> Some(2000000)]])},
   fundamentals : {JsNull, Given(FundamentalsOf(Null, Null, Null, Null)),
                   Given(FundamentalsOf(Some(5000), Some(20), Some(250), Some(100)))},
   trend : {Undefined, Given(neutralTrend(16000))},
   calendar : {Undefined, JsNull,
               Given([earnings |-> [daysToEarnings |-> Null], macroEvents |-> <<>>]),
               Given([earnings |-> [daysToEarnings |-> Some(40)], macroEvents |-> <<"CPI">>])},
   tradeDte : {Undefined, JsNull, Given(45)},
   riskFlags : {Undefined, Given(<<"RISK_MACRO_EVENT">>)}]

NoExplanation == [raised |-> FALSE, why |-> <<>>, riskFlags |-> <<>>]

IdleExplain == explainInput = Null /\ explanation = NoExplanation /\ explainPc = "idle"

InitExplain ==
  /\ explainInput \in {Some(i) : i \in ExplanationInputs}
  /\ explanation = NoExplanation
  /\ explainPc = "call"

Explain ==
  /\ explainPc = "call"
  /\ explanation' = buildExplanation(Val(explainInput))
  /\ explainPc' = "done"
  /\ UNCHANGED explainInput
  /\ UNCHANGED <<strikeVars, scoreVars, qualifyVars>>
  /\ UNCHANGED <<selectVars, rankVars, gateVars, universeVars,
               sizingVars,
               concentrationVars,
               retryVars,
               cacheVars>>

----------------------------------------------------------------------------
(* The sizing of the best trade candidate: src/src/lib/qualify/qualify.ts  *)
(* lines 265-280 with src/src/lib/sizing/guardrail.ts.  Amounts are in     *)
(* hundreds of dollars here, maxPerTradePct in hundredths.                 *)

SizingInputs ==
  [ticker : {1},
   accountSize : {-1000, 0, 1, 1000, 1200, 2000},
   best : {[id |-> "1-PCS-45", maxLoss |-> c] : c \in {0, 50, 60, 61, 500}},
   maxPerTradePct : {Null, Some(0), Some(5), Some(6), Some(25)}]

NoSizing ==
  [requiredCollateral |-> 0, accountSize |-> 0, allocationPct |-> <<0, 1>>,
   maxAllocationPct |-> 0, withinLimit |-> TRUE, warning |-> Null]

IdleSizing ==
  /\ sizingInput = Null /\ sizingResult = NoSizing /\ sizedCandidates = <<>>
  /\ sizingPc = "idle"

InitSizing ==
  /\ sizingInput \in {Some(i) : i \in SizingInputs}
  /\ sizingResult = NoSizing
  /\ sizedCandidates = <<>>
  /\ sizingPc = "call"

\* const sizing = evaluatePositionSizing({...}); candidates.push({...})
SizeBest ==
  /\ sizingPc = "call"
  /\ sizingResult' = evaluatePositionSizing(Val(sizingInput).accountSize,
                                            Val(sizingInput).best.maxLoss,
                                            Val(sizingInput).maxPerTradePct)
  /\ sizedCandidates' =
       Append(sizedCandidates,
              [ticker |-> Val(sizingInput).ticker,
               candidate |-> Val(sizingInput).best,
               sizing |-> [requiredCollateral |-> sizingResult'.requiredCollateral,
                           allocationPct |-> sizingResult'.allocationPct,
                           withinLimit |-> sizingResult'.withinLimit,
                           warning |-> sizingResult'.warning]])
  /\ sizingPc' = "done"
  /\ UNCHANGED sizingInput
  /\ UNCHANGED <<strikeVars, scoreVars, qualifyVars>>
  /\ UNCHANGED <<selectVars, rankVars, gateVars, universeVars, explainVars,
               concentrationVars,
               retryVars,
               cacheVars>>

----------------------------------------------------------------------------
(* Concentration risk: src/src/lib/risk/concentration.ts.  Collateral is   *)
(* in dollars, thresholds and beta in hundredths, a sector name is a       *)
(* sequence of characters.                                                 *)

CONCENTRATION_DEFAULT_CONFIG ==
  [sectorMaxPct |-> 25, maxPositionsPerTicker |-> 1, correlatedSectorThreshold |-> 40,
   highBetaThreshold |-> 200]

UnknownSector == <<"U", "n", "k", "n", "o", "w", "n">>

\* sector?.trim() || "Unknown"
normalizeSector(sector) ==
  IF IsNull(sector) THEN UnknownSector
  ELSE Bind(TrimEnd(TrimStart(Val(sector))),
            LAMBDA trimmed : IF Len(trimmed) = 0 THEN UnknownSector ELSE trimmed)

\* { ...DEFAULT_CONFIG, ...config }
mergeConcentrationConfig(partial) ==
  [field \in DOMAIN CONCENTRATION_DEFAULT_CONFIG |->
     IF IsNull(partial[field]) THEN CONCENTRATION_DEFAULT_CONFIG[field]
     ELSE Val(partial[field])]

\* Variant of shareAtLeast with > where lines 45 and 49 have >=.
shareAbove(collateral, totalCollateral, threshold) ==
  totalCollateral > 0 /\ 100 * collateral > threshold * totalCollateral

\* Lines 43-45 and 49: no share is taken of a total that is not positive;
\* pct = collateral / totalCollateral, pct >= threshold.
shareAtLeast(collateral, totalCollateral, threshold) ==
  totalCollateral > 0 /\ 100 * collateral >= threshold * totalCollateral

\* sectorExposure after the loop over the positions, in order of insertion.
sectorExposureOf(positions) ==
  Map(Dedupe(Map(positions, LAMBDA p : normalizeSector(p.sector))),
      LAMBDA key : [sector |-> key,
                    collateral |-> SumOf(Filter(positions,
                                                LAMBDA p : normalizeSector(p.sector) = key),
                                         "collateral")])

\* tickerCounts after the loop over the positions, in order of insertion.
tickerCountsOf(positions) == tally(Map(positions, LAMBDA p : p.ticker))

\* (pct * 100).toFixed(1), in tenths of a percent
sharePctTenths(collateral, totalCollateral) ==
  (2000 * collateral + totalCollateral) \div (2 * totalCollateral)

evaluateConcentrationRisk(positions, partial) ==
  Bind(mergeConcentrationConfig(partial), LAMBDA cfg :
  Bind(SumOf(positions, "collateral"), LAMBDA totalCollateral :
  Bind(sectorExposureOf(positions), LAMBDA sectorExposure :
  Bind(Filter(tickerCountsOf(positions), LAMBDA tc : tc[2] > cfg.maxPositionsPerTicker),
       LAMBDA crowded :
    [riskFlags |->
       Dedupe(Map(Filter(positions, LAMBDA p : ~IsNull(p.beta)
                                               /\ Val(p.beta) >= cfg.highBetaThreshold),
                  LAMBDA p : "RISK_CORRELATED_EXPOSURE")
              \o Map(crowded, LAMBDA tc : "RISK_CORRELATED_EXPOSURE")
              \o FlattenSeq(Map(sectorExposure, LAMBDA e :
                   (IF shareAtLeast(e.collateral, totalCollateral, cfg.sectorMaxPct)
                    THEN <<"RISK_SECTOR_CONCENTRATION">> ELSE <<>>)
                   \o (IF shareAtLeast(e.collateral, totalCollateral,
                                       cfg.correlatedSectorThreshold)
                       THEN <<"RISK_CORRELATED_EXPOSURE">> ELSE <<>>)))),
     sectorExposure |-> sectorExposure,
     violations |->
       Map(crowded, LAMBDA tc : [about |-> "ticker", name |-> tc[1], amount |-> tc[2]])
       \o Map(Filter(sectorExposure,
                     LAMBDA e : shareAtLeast(e.collateral, totalCollateral, cfg.sectorMaxPct)),
              LAMBDA e : [about |-> "sector", name |-> e.sector,
                          amount |-> sharePctTenths(e.collateral, totalCollateral)])]))))

MaxPositions == 3

PositionOf(symbol, sector, collateral, beta) ==
  [ticker |-> symbol, sector |-> sector, collateral |-> collateral, beta |-> beta]

PositionPool ==
  { PositionOf("A", Some(<<"T">>), 100, Null),
    PositionOf("A", Some(<<"T", " ">>), 300, Some(150)),
    PositionOf("B", Some(<<"E">>), 100, Some(200)),
    PositionOf("B", Null, 0, Null),
    PositionOf("C", Some(<<"E">>), 300, Null),
    PositionOf("C", Some(<<" ">>), 100, Some(250)),
    PositionOf("D", Some(<<"T">>), 50, Null) }

PartialConfig(sectorMaxPct, maxPositionsPerTicker, correlatedSectorThreshold, highBetaThreshold) ==
  [sectorMaxPct |-> sectorMaxPct, maxPositionsPerTicker |-> maxPositionsPerTicker,
   correlatedSectorThreshold |-> correlatedSectorThreshold,
   highBetaThreshold |-> highBetaThreshold]

ConcentrationConfigs ==
  { PartialConfig(Null, Null, Null, Null),
    PartialConfig(Some(50), Null, Null, Null),
    PartialConfig(Null, Null, Some(20), Null),
    PartialConfig(Null, Null, Some(75), Null),
    PartialConfig(Null, Some(2), Null, Null),
    PartialConfig(Null, Null, Null, Some(100)),
    PartialConfig(Null, Null, Null, Some(300)) }

ConcentrationInputs ==
  [positions : UNION {[1..n -> PositionPool] : n \in 0..MaxPositions},
   config : ConcentrationConfigs]

NoConcentration == [riskFlags |-> <<>>, sectorExposure |-> <<>>, violations |-> <<>>]

IdleConcentration ==
  /\ concentrationInput = Null /\ concentrationResult = NoConcentration
  /\ concentrationPc = "idle"

InitConcentration ==
  /\ concentrationInput \in {Some(i) : i \in ConcentrationInputs}
  /\ concentrationResult = NoConcentration
  /\ concentrationPc = "call"

EvaluateConcentration ==
  /\ concentrationPc = "call"
  /\ concentrationResult' = evaluateConcentrationRisk(Val(concentrationInput).positions,
                                                      Val(concentrationInput).config)
  /\ concentrationPc' = "done"
  /\ UNCHANGED concentrationInput
  /\ UNCHANGED <<strikeVars, scoreVars, qualifyVars>>
  /\ UNCHANGED <<selectVars, rankVars, gateVars, universeVars, explainVars, sizingVars,
               retryVars,
               cacheVars>>

----------------------------------------------------------------------------
(* AlpacaClient.request: src/unnamed/part_007 lines 90-120.  Delays are in *)
(* milliseconds; a Retry-After header is the empty text or a number of     *)
(* seconds.                                                                *)

DEFAULT_MAX_RETRIES == 3
BASE_DELAY_MS == 250

\* options.maxRetries ?? DEFAULT_MAX_RETRIES
maxRetriesOf(option) == IF IsNull(option) THEN DEFAULT_MAX_RETRIES ELSE Val(option)

\* response.ok
isOk(status) == status >= 200 /\ status <= 299

\* Variant that retries after every failed response.
shouldRetryAlways(status) == TRUE

\* Line 107.
shouldRetry(status) == status = 429 \/ status >= 500 \/ status = 408

\* Line 114: the Retry-After header in seconds when it is present and not
\* empty, else the exponential backoff.
retryDelay(retryAfter, n) ==
  IF ~IsNull(retryAfter) /\ ~Val(retryAfter).empty THEN Val(retryAfter).seconds * 1000
  ELSE BASE_DELAY_MS * 2 ^ n

MaxRetriesOptions == {Null, Some(-1), Some(0), Some(1)}
Statuses == {200, 404, 408, 429, 500}
HeaderOf(empty, seconds) == [empty |-> empty, seconds |-> seconds]
RetryAfterHeaders == {Null, Some(HeaderOf(TRUE, 0)), Some(HeaderOf(FALSE, 0)),
                      Some(HeaderOf(FALSE, 2))}
Jitters == {0, 100}

IdleRetry ==
  /\ maxRetries = 0 /\ attempt = 0 /\ fetches = 0 /\ statuses = <<>> /\ waits = <<>>
  /\ retryPc = "idle"

\* A client as constructed, and a call of request at the head of its loop.
InitRetry ==
  /\ maxRetries \in {maxRetriesOf(option) : option \in MaxRetriesOptions}
  /\ attempt = 0 /\ fetches = 0 /\ statuses = <<>> /\ waits = <<>>
  /\ retryPc = "loop"

\* Line 93-94: the loop condition holds and the fetch is issued.
IssueFetch ==
  /\ retryPc = "loop" /\ attempt <= maxRetries
  /\ fetches' = fetches + 1
  /\ retryPc' = "fetching"
  /\ UNCHANGED <<maxRetries, attempt, statuses, waits>>
  /\ UNCHANGED <<strikeVars, scoreVars, qualifyVars>>
  /\ UNCHANGED <<selectVars, rankVars, gateVars, universeVars, explainVars, sizingVars, concentrationVars,
               cacheVars>>

\* Line 119: the loop condition fails.
LoopExhausted ==
  /\ retryPc = "loop" /\ attempt > maxRetries
  /\ retryPc' = "raised"
  /\ UNCHANGED <<maxRetries, attempt, fetches, statuses, waits>>
  /\ UNCHANGED <<strikeVars, scoreVars, qualifyVars>>
  /\ UNCHANGED <<selectVars, rankVars, gateVars, universeVars, explainVars, sizingVars, concentrationVars,
               cacheVars>>

\* The fetch rejects (no response): the rejection leaves request.
FetchRejects ==
  /\ retryPc = "fetching"
  /\ retryPc' = "raised"
  /\ UNCHANGED <<maxRetries, attempt, fetches, statuses, waits>>
  /\ UNCHANGED <<strikeVars, scoreVars, qualifyVars>>
  /\ UNCHANGED <<selectVars, rankVars, gateVars, universeVars, explainVars, sizingVars, concentrationVars,
               cacheVars>>

\* Lines 102-116: a response arrives; the code runs up to the return, the
\* throw or the sleep.  The body of an OK response parses or not.
FetchResponds ==
  /\ retryPc = "fetching"
  /\ \E status \in Statuses, retryAfter \in RetryAfterHeaders, jitter \in Jitters,
        parses \in BOOLEAN :
       /\ statuses' = Append(statuses, status)
       /\ IF isOk(status)
          THEN /\ retryPc' = IF parses THEN "returned" ELSE "raised"
               /\ waits' = waits
          ELSE IF ~shouldRetry(status) \/ attempt = maxRetries
          THEN /\ retryPc' = "raised"
               /\ waits' = waits
          ELSE /\ retryPc' = "sleeping"
               /\ waits' = Append(waits, [ms |-> retryDelay(retryAfter, attempt) + jitter,
                                          retryAfter |-> retryAfter,
                                          jitter |-> jitter])
  /\ UNCHANGED <<maxRetries, attempt, fetches>>
  /\ UNCHANGED <<strikeVars, scoreVars, qualifyVars>>
  /\ UNCHANGED <<selectVars, rankVars, gateVars, universeVars, explainVars, sizingVars, concentrationVars,
               cacheVars>>

\* The timer of sleep fires: attempt += 1 and the loop condition is next.
SleepEnds ==
  /\ retryPc = "sleeping"
  /\ attempt' = attempt + 1
  /\ retryPc' = "loop"
  /\ UNCHANGED <<maxRetries, fetches, statuses, waits>>
  /\ UNCHANGED <<strikeVars, scoreVars, qualifyVars>>
  /\ UNCHANGED <<selectVars, rankVars, gateVars, universeVars, explainVars, sizingVars, concentrationVars,
               cacheVars>>

----------------------------------------------------------------------------
(* In-memory cache: src/app/api/strategy/select/route.ts lines 33-62.  A   *)
(* value is a text, "null" for null; time is in milliseconds.              *)

CacheKeys == {"quote:A", "quote:B"}

\* Variant that still returns an entry at the instant it expires.
getCacheValueUntilExpiry(store, key, time) ==
  IF IsNull(store[key]) THEN "null"
  ELSE IF Val(store[key]).expiresAt < time THEN "null"
  ELSE Val(store[key]).value

\* getCacheValue: what it returns ...
getCacheValue(store, key, time) ==
  IF IsNull(store[key]) THEN "null"
  ELSE IF Val(store[key]).expiresAt <= time THEN "null"
  ELSE Val(store[key]).value

\* ... and the store it leaves (line 46).
storeAfterGet(store, key, time) ==
  IF ~IsNull(store[key]) /\ Val(store[key]).expiresAt <= time
  THEN [store EXCEPT ![key] = Null]
  ELSE store

setCacheValue(store, key, value, ttlMs, time) ==
  [store EXCEPT ![key] = Some([value |-> value, expiresAt |-> time + ttlMs])]

MaxCalls == 3
MaxClock == 2
Calls == 1..MaxCalls
TtlValues == {0, 2}

\* What the loader of a call resolves to.
LoaderValues(c) == {"null", IF c = 1 THEN "v1" ELSE IF c = 2 THEN "v2" ELSE "v"}

CallOf(key, ttlMs) ==
  [key |-> key, ttlMs |-> ttlMs, pc |-> "start", result |-> "", fromCache |-> FALSE,
   readAt |-> 0, loaded |-> ""]

IdleCache ==
  /\ cacheStore = [k \in CacheKeys |-> Null] /\ clock = 0 /\ calls = <<>> /\ writes = <<>>

InitCache ==
  /\ cacheStore = [k \in CacheKeys |-> Null]
  /\ clock = 0
  /\ calls \in [Calls -> {CallOf(key, ttlMs) : key \in CacheKeys, ttlMs \in TtlValues}]
  /\ writes = <<>>

\* Lines 57-59: the read; a hit returns, a miss starts the loader.
CallReads ==
  \E c \in Calls :
    /\ calls[c].pc = "start"
    /\ cacheStore' = storeAfterGet(cacheStore, calls[c].key, clock)
    /\ calls' = Bind(getCacheValue(cacheStore, calls[c].key, clock), LAMBDA cached :
                  IF cached # "null"
                  THEN [calls EXCEPT ![c].pc = "returned", ![c].result = cached,
                                     ![c].fromCache = TRUE, ![c].readAt = clock]
                  ELSE [calls EXCEPT ![c].pc = "loading", ![c].readAt = clock])
    /\ UNCHANGED <<clock, writes>>
    /\ UNCHANGED <<strikeVars, scoreVars, qualifyVars>>
    /\ UNCHANGED <<selectVars, rankVars, gateVars, universeVars, explainVars, sizingVars, concentrationVars, retryVars>>

\* Lines 59-61: the loader resolves, the value is stored and returned.
LoaderResolves ==
  \E c \in Calls : \E value \in LoaderValues(c) :
    /\ calls[c].pc = "loading"
    /\ cacheStore' = setCacheValue(cacheStore, calls[c].key, value, calls[c].ttlMs, clock)
    /\ calls' = [calls EXCEPT ![c].pc = "returned", ![c].result = value,
                              ![c].loaded = value]
    /\ writes' = Append(writes, [key |-> calls[c].key, value |-> value, at |-> clock,
                                 ttlMs |-> calls[c].ttlMs, by |-> c])
    /\ UNCHANGED clock
    /\ UNCHANGED <<strikeVars, scoreVars, qualifyVars>>
    /\ UNCHANGED <<selectVars, rankVars, gateVars, universeVars, explainVars, sizingVars, concentrationVars, retryVars>>

\* Line 59: the loader rejects and the rejection leaves withCache.
LoaderRaises ==
  \E c \in Calls :
    /\ calls[c].pc = "loading"
    /\ calls' = [calls EXCEPT ![c].pc = "raised"]
    /\ UNCHANGED <<cacheStore, clock, writes>>
    /\ UNCHANGED <<strikeVars, scoreVars, qualifyVars>>
    /\ UNCHANGED <<selectVars, rankVars, gateVars, universeVars, explainVars, sizingVars, concentrationVars, retryVars>>

\* Date.now() advances.
Tick ==
  /\ clock < MaxClock
  /\ clock' = clock + 1
  /\ UNCHANGED <<cacheStore, calls, writes>>
  /\ UNCHANGED <<strikeVars, scoreVars, qualifyVars>>
  /\ UNCHANGED <<selectVars, rankVars, gateVars, universeVars, explainVars, sizingVars, concentrationVars, retryVars>>

IdleLib == IdleSelect /\ IdleRank /\ IdleGate /\ IdleUniverse /\ IdleExplain
  /\ IdleSizing
  /\ IdleConcentration
  /\ IdleRetry
  /\ IdleCache

----------------------------------------------------------------------------
(* Specifications *)

Init == InitQualify /\ IdleStrike /\ IdleScore /\ IdleLib

Next == NextQualify

Spec == Init /\ [][Next]_vars

InitStrikeOnly == InitStrike /\ IdleScore /\ IdleQualify /\ IdleLib

NextStrike == FindStrike

SpecStrike == InitStrikeOnly /\ [][NextStrike]_vars

InitScoreOnly == InitScore /\ IdleStrike /\ IdleQualify /\ IdleLib

NextScore == Score

SpecScore == InitScoreOnly /\ [][NextScore]_vars

InitSelectOnly == InitSelect /\ IdleStrike /\ IdleScore /\ IdleQualify /\ IdleRank /\ IdleGate /\ IdleUniverse
    /\ IdleExplain
  /\ IdleSizing
  /\ IdleConcentration
  /\ IdleRetry
  /\ IdleCache

NextSelect == Select

SpecSelect == InitSelectOnly /\ [][NextSelect]_vars

InitRankOnly == InitRank /\ IdleStrike /\ IdleScore /\ IdleQualify /\ IdleSelect /\ IdleGate /\ IdleUniverse
    /\ IdleExplain
  /\ IdleSizing
  /\ IdleConcentration
  /\ IdleRetry
  /\ IdleCache

NextRank == Rank

SpecRank == InitRankOnly /\ [][NextRank]_vars

InitGateOnly == InitGate /\ IdleStrike /\ IdleScore /\ IdleQualify /\ IdleSelect /\ IdleRank /\ IdleUniverse
    /\ IdleExplain
  /\ IdleSizing
  /\ IdleConcentration
  /\ IdleRetry
  /\ IdleCache

NextGate == EvaluateGate

SpecGate == InitGateOnly /\ [][NextGate]_vars

InitUniverseOnly ==
  /\ InitUniverse /\ IdleStrike /\ IdleScore /\ IdleQualify /\ IdleSelect /\ IdleRank
  /\ IdleGate /\ IdleExplain
  /\ IdleSizing
  /\ IdleConcentration
  /\ IdleRetry
  /\ IdleCache

NextUniverse == UniverseStart \/ UniverseRaises \/ UniverseTicker \/ UniverseReturns

SpecUniverse == InitUniverseOnly /\ [][NextUniverse]_vars

InitExplainOnly ==
  /\ InitExplain /\ IdleStrike /\ IdleScore /\ IdleQualify /\ IdleSelect /\ IdleRank
  /\ IdleGate /\ IdleUniverse
  /\ IdleSizing
  /\ IdleConcentration
  /\ IdleRetry
  /\ IdleCache

NextExplain == Explain

SpecExplain == InitExplainOnly /\ [][NextExplain]_vars

InitSizingOnly ==
  /\ InitSizing /\ IdleStrike /\ IdleScore /\ IdleQualify
  /\ IdleSelect /\ IdleRank /\ IdleGate /\ IdleUniverse /\ IdleExplain
  /\ IdleConcentration
  /\ IdleRetry
  /\ IdleCache

NextSizing == SizeBest

SpecSizing == InitSizingOnly /\ [][NextSizing]_vars

InitConcentrationOnly ==
  /\ InitConcentration /\ IdleStrike /\ IdleScore /\ IdleQualify
  /\ IdleSelect /\ IdleRank /\ IdleGate /\ IdleUniverse /\ IdleExplain /\ IdleSizing
  /\ IdleRetry
  /\ IdleCache

NextConcentration == EvaluateConcentration

SpecConcentration == InitConcentrationOnly /\ [][NextConcentration]_vars

InitRetryOnly ==
  /\ InitRetry /\ IdleStrike /\ IdleScore /\ IdleQualify
  /\ IdleSelect /\ IdleRank /\ IdleGate /\ IdleUniverse /\ IdleExplain /\ IdleSizing /\ IdleConcentration
  /\ IdleCache

NextRetry == IssueFetch \/ LoopExhausted \/ FetchRejects \/ FetchResponds \/ SleepEnds

SpecRetry == InitRetryOnly /\ [][NextRetry]_vars

\* The fetch settles and the timer fires: every step of request that can be
\* taken is taken.
SpecRetryLive == SpecRetry /\ WF_vars(NextRetry)

InitCacheOnly ==
  /\ InitCache /\ IdleStrike /\ IdleScore /\ IdleQualify
  /\ IdleSelect /\ IdleRank /\ IdleGate /\ IdleUniverse /\ IdleExplain /\ IdleSizing /\ IdleConcentration /\ IdleRetry

NextCache == CallReads \/ LoaderResolves \/ LoaderRaises \/ Tick

SpecCache == InitCacheOnly /\ [][NextCache]_vars

----------------------------------------------------------------------------
(* Properties of findStrikeCandidate (SpecStrike) *)

StrikeDone == strikePc = "done"
IsSpread(strat) == strat \in {"PCS", "CCS"}
SideOf(strat) == IF strat \in {"CSP", "PCS"} THEN "put" ELSE "call"
HasReason(code) == \E i \in 1..Len(strikeResult.reasons) : strikeResult.reasons[i] = code

\* Both strikes (the lone short strike for CSP and CC) were resolved.
StrikesResolved ==
  /\ StrikeDone
  /\ ~IsNull(shortSel)
  /\ IsSpread(strategy) => ~IsNull(longSel)

\* The bounds of the active strategy, read from the configuration.
ActiveBand ==
  CASE strategy = "CSP" -> [minOtm |-> config.cspMinOtmPct, maxOtm |-> config.cspMaxOtmPct,
                            deltaMin |-> config.cspDeltaMin, deltaMax |-> config.cspDeltaMax,
                            target |-> config.cspTargetDelta]
    [] strategy = "PCS" -> [minOtm |-> config.pcsMinOtmPct, maxOtm |-> config.pcsMaxOtmPct,
                            deltaMin |-> config.pcsDeltaMin, deltaMax |-> config.pcsDeltaMax,
                            target |-> config.pcsTargetDelta]
    [] strategy = "CCS" -> [minOtm |-> config.ccsMinOtmPct, maxOtm |-> config.ccsMaxOtmPct,
                            deltaMin |-> config.ccsDeltaMin, deltaMax |-> config.ccsDeltaMax,
                            target |-> config.ccsTargetDelta]
    [] strategy = "CC" -> [minOtm |-> config.ccMinOtmPct, maxOtm |-> config.ccMaxOtmPct,
                           deltaMin |-> config.ccDeltaMin, deltaMax |-> config.ccDeltaMax,
                           target |-> config.ccTargetDelta]

\* Contract c meets every short-strike rule of the active strategy, written
\* out from the rule texts.
MeetsShortRules(c) ==
  LET otmNum == IF SideOf(strategy) = "put" THEN underlyingPrice - c.strike
                ELSE c.strike - underlyingPrice
      absDelta == Abs(Val(c.delta))
  IN /\ c.side = SideOf(strategy)
     /\ 100 * otmNum >= ActiveBand.minOtm * underlyingPrice
     /\ 100 * otmNum <= ActiveBand.maxOtm * underlyingPrice
     /\ config.allowAtm \/ otmNum > 0
     /\ ~IsNull(c.delta)
     /\ absDelta >= ActiveBand.deltaMin /\ absDelta <= ActiveBand.deltaMax
     /\ c.bid >= config.minShortBid
     /\ c.ask > 0
     /\ c.bid + c.ask > 0
     /\ 200 * (c.ask - c.bid) <= config.maxSpreadPct * (c.bid + c.ask)
     /\ c.openInterest >= config.minOpenInterest
     /\ c.volume >= config.minVolume

\* C1: a candidate returned with no reasons has as shortStrike the strike of
\* a same-side contract of the chain whose OTM percent is in the strategy's
\* band (and positive unless allowAtm), whose |delta| is in the strategy's
\* delta band and which passes the per-contract liquidity floor.
C1_ValidShortMeetsRules ==
  (StrikeDone /\ strikeResult.reasons = <<>>) =>
    \E i \in 1..Len(chain) :
      chain[i].strike = strikeResult.shortStrike /\ MeetsShortRules(chain[i])

C1_Witness ==
  /\ StrikeDone /\ strikeResult.reasons = <<>>
  /\ \E i \in 1..Len(chain) :
       chain[i].side = SideOf(strategy) /\ ~MeetsShortRules(chain[i])

\* C2 as stated: every returned candidate, valid or not, has credit >= 0,
\* maxLoss >= 0 and breakeven = shortStrike - credit (put strategies) or
\* shortStrike + credit (call strategies).
C2_Original ==
  StrikeDone =>
    /\ strikeResult.credit >= 0
    /\ strikeResult.maxLoss >= 0
    /\ strikeResult.breakeven =
         IF SideOf(strategy) = "put" THEN strikeResult.shortStrike - strikeResult.credit
         ELSE strikeResult.shortStrike + strikeResult.credit

\* C2 amended: every returned candidate has credit >= 0 and maxLoss >= 0;
\* breakeven = shortStrike -/+ credit holds for every candidate except the
\* one returned with NO_VALID_LONG_STRIKE, which keeps the resolved short
\* strike next to credit = 0 and breakeven = 0.
C2_CreditLossBreakeven ==
  StrikeDone =>
    /\ strikeResult.credit >= 0
    /\ strikeResult.maxLoss >= 0
    /\ IF strikeResult.reasons = <<"NO_VALID_LONG_STRIKE">>
       THEN strikeResult.breakeven = 0 /\ strikeResult.credit = 0
            /\ strikeResult.shortStrike = Val(shortSel).strike
       ELSE strikeResult.breakeven =
              IF SideOf(strategy) = "put"
              THEN strikeResult.shortStrike - strikeResult.credit
              ELSE strikeResult.shortStrike + strikeResult.credit

\* A spread with both strikes resolved whose short bid is below the long ask.
C2_Witness ==
  /\ StrikesResolved /\ IsSpread(strategy)
  /\ Val(shortSel).bid < Val(longSel).ask
  /\ strikeResult.reasons # <<>>

\* C3: with all strikes resolved, credit is exactly max(shortBid - longAsk, 0)
\* for a spread and exactly shortBid for a single-leg strategy.
C3_CreditExact ==
  StrikesResolved =>
    strikeResult.credit =
      IF IsSpread(strategy)
      THEN (IF Val(shortSel).bid - Val(longSel).ask > 0
            THEN Val(shortSel).bid - Val(longSel).ask ELSE 0)
      ELSE Val(shortSel).bid

C3_Witness ==
  /\ StrikesResolved /\ IsSpread(strategy)
  /\ strikeResult.credit > 0
  /\ Val(longSel).bid # Val(longSel).ask

\* The survivors of the short-strike filters, in chain order.
Survivors == {i \in 1..Len(chain) : MeetsShortRules(chain[i])}

\* (ask - bid) / mid of a survivor (mid > 0), as numerator and denominator.
SpreadNum(c) == 2 * (c.ask - c.bid)
SpreadDen(c) == c.bid + c.ask
TargetDistance(c) == Abs(Abs(Val(c.delta)) - ActiveBand.target)

\* C9: the selected short contract is a survivor closest in |delta| to the
\* target delta; among survivors tied on that distance it has the highest
\* bid; among survivors tied on both it has the smallest spread percent.  And
\* the PCS search over {145, -0.19, 0.20} and {140, -0.21, 0.40} at
\* underlying 160 selects strike 140 with no reasons.
C9_ClosestDeltaAndScenario ==
  /\ (StrikeDone /\ Survivors # {}) =>
       /\ ~IsNull(shortSel)
       /\ \E i \in Survivors : chain[i] = Val(shortSel)
       /\ \A i \in Survivors :
            LET c == chain[i]
                s == Val(shortSel)
            IN /\ TargetDistance(s) <= TargetDistance(c)
               /\ TargetDistance(s) = TargetDistance(c) => s.bid >= c.bid
               /\ (TargetDistance(s) = TargetDistance(c) /\ s.bid = c.bid) =>
                    SpreadNum(s) * SpreadDen(c) <= SpreadNum(c) * SpreadDen(s)
  /\ (/\ StrikeDone /\ chain = <<FixtureA, FixtureB>> /\ underlyingPrice = 16000
      /\ strategy = "PCS" /\ config = DEFAULT_CONFIG) =>
       strikeResult.shortStrike = 14000 /\ strikeResult.reasons = <<>>

\* C10: with all strikes resolved, INSUFFICIENT_CREDIT is a reason iff
\* credit < minCredit, POOR_CREDIT_TO_WIDTH is a reason iff the strategy is a
\* spread with width > 0 and credit / width < minCreditPct, and the
\* candidate is valid exactly when neither holds.
C10_CreditGuardrails ==
  StrikesResolved =>
    LET width == IF IsSpread(strategy)
                 THEN Abs(strikeResult.shortStrike - Val(strikeResult.longStrike)) ELSE 0
        insufficient == strikeResult.credit < config.minCredit
        poor == /\ IsSpread(strategy) /\ width > 0
                /\ 100 * strikeResult.credit < config.minCreditPct * width
    IN /\ HasReason("INSUFFICIENT_CREDIT") <=> insufficient
       /\ HasReason("POOR_CREDIT_TO_WIDTH") <=> poor
       /\ (strikeResult.reasons = <<>>) <=> (~insufficient /\ ~poor)

C10_Witness ==
  /\ StrikesResolved
  /\ HasReason("INSUFFICIENT_CREDIT") /\ HasReason("POOR_CREDIT_TO_WIDTH")

----------------------------------------------------------------------------
(* Properties of scoreCandidate (SpecScore) *)

\* C4: breakdown.total is the sum of the five rounded sub-scores, each
\* sub-score lies between 0 and its ceiling (30, 20, 20, 20, 10), and
\* 0 <= total <= 100.
C4_TotalIsSumOfParts ==
  scorePc = "done" =>
    LET b == scoreResult.breakdown
    IN /\ b.total = b.fundamentals + b.liquidity + b.volatility + b.trend + b.eventRisk
       /\ b.fundamentals \in 0..30
       /\ b.liquidity \in 0..20
       /\ b.volatility \in 0..20
       /\ b.trend \in 0..20
       /\ b.eventRisk \in 0..10
       /\ b.total \in 0..100

----------------------------------------------------------------------------
(* Properties of qualify *)

SeqToSet(s) == {s[i] : i \in 1..Len(s)}

\* The included tickers whose round of the loop has ended.
Processed == {included[i] : i \in 1..Min2(idx - 1, Len(included))}

DisqualifiedFor(t) == {i \in 1..Len(disqualified) : disqualified[i].ticker = t}

CandidatesFor(t) == {i \in 1..Len(candidates) : candidates[i].ticker = t}

\* The strike search a trade candidate of a recorded round came from.
StrikeBehind(b, tc) ==
  findStrikeCandidate(Filter(b.contracts, LAMBDA c : c.expiration = tc.expiration),
                      b.price, tc.strategy, DEFAULT_CONFIG)

\* C5: every trade candidate built for a ticker, and so every candidate of
\* the response, comes from a strike search over the contracts of its
\* expiration, for its strategy, that returned no reason and the same strikes
\* and credit.
C5_CandidatesFromValidStrikes ==
  /\ \A i \in 1..Len(built) : \A j \in 1..Len(built[i].tradeCandidates) :
       LET tc == built[i].tradeCandidates[j]
           strike == StrikeBehind(built[i], tc)
       IN /\ tc.ticker = built[i].ticker
          /\ strike.reasons = <<>>
          /\ tc.shortStrike = strike.shortStrike
          /\ tc.longStrike = strike.longStrike
          /\ tc.credit = strike.credit
  /\ ~IsNull(response) =>
       \A k \in 1..Len(Val(response).candidates) :
         \E i \in 1..Len(built) :
           /\ built[i].ticker = Val(response).candidates[k].ticker
           /\ Val(response).candidates[k].candidate \in SeqToSet(built[i].tradeCandidates)

\* A response holds a candidate of a ticker for which the search of another
\* strategy over the same chain returned a reason.
C5_Witness ==
  /\ ~IsNull(response)
  /\ \E k \in 1..Len(Val(response).candidates) : \E i \in 1..Len(built) :
       /\ built[i].ticker = Val(response).candidates[k].ticker
       /\ \E strat \in Strategies : \E c \in SeqToSet(built[i].contracts) :
            /\ strat \in {"PCS", "CCS"}
            /\ findStrikeCandidate(
                 Filter(built[i].contracts, LAMBDA d : d.expiration = c.expiration),
                 built[i].price, strat, DEFAULT_CONFIG).reasons # <<>>

\* C6 as stated: whichever provider call raised, the ticker has exactly one
\* entry in disqualified and it carries the error message.
C6_Original ==
  \A i \in 1..Len(raised) :
    /\ Cardinality(DisqualifiedFor(raised[i].ticker)) = 1
    /\ \A k \in DisqualifiedFor(raised[i].ticker) :
         disqualified[k].reasons = <<[message |-> raised[i].message, summary |-> <<>>]>>

StrictlyIncreasing(s) == \A i, j \in 1..Len(s) : i < j => s[i] < s[j]

\* C6: once a provider call has raised for a ticker the run does not reject;
\* the ticker has exactly one entry in disqualified and none in candidates,
\* carrying the error message, or "Missing price data." when the call was
\* the latest-trade or latest-quote price fallback; every ticker whose round
\* has ended keeps exactly one outcome, the included tickers are disqualified
\* in request order, and the finished run returns the whole disqualified list.
C6_RaiseBecomesDisqualification ==
  /\ raised # <<>> => qPc # "failed"
  /\ \A i \in 1..Len(raised) :
       /\ raised[i].ticker \in Processed
       /\ CandidatesFor(raised[i].ticker) = {}
       /\ \A k \in DisqualifiedFor(raised[i].ticker) :
            disqualified[k].reasons =
              << [message |-> IF raised[i].swallowed THEN "Missing price data."
                              ELSE raised[i].message,
                  summary |-> <<>>] >>
  /\ \A t \in Processed :
       Cardinality(DisqualifiedFor(t)) + Cardinality(CandidatesFor(t)) = 1
  /\ StrictlyIncreasing(
       LET mine == Filter(disqualified, LAMBDA d : d.ticker \in SeqToSet(included))
       IN [k \in 1..Len(mine) |-> mine[k].ticker])
  /\ qPc = "done" =>
       /\ ~IsNull(response)
       /\ Val(response).disqualified = disqualified
       /\ Processed = SeqToSet(included)

\* A finished run in which the chain or calendar call raised for the second
\* of three included tickers: the first and third are in the response.
C6_Witness ==
  /\ qPc = "done"
  /\ Len(included) = 3
  /\ Len(raised) = 1 /\ raised[1].ticker = included[2] /\ ~raised[1].swallowed
  /\ CandidatesFor(included[1]) # {}
  /\ CandidatesFor(included[3]) # {}
  /\ DisqualifiedFor(included[2]) # {}

C8_BestKeptAndSized ==
  \A i \in 1..Len(built) :
    LET b == built[i]
    IN IF Len(b.tradeCandidates) = 0
       THEN /\ CandidatesFor(b.ticker) = {}
            /\ Cardinality(DisqualifiedFor(b.ticker)) = 1
       ELSE /\ Cardinality(CandidatesFor(b.ticker)) = 1
            /\ DisqualifiedFor(b.ticker) = {}
            /\ \A k \in CandidatesFor(b.ticker) :
                 LET kept == candidates[k]
                 IN /\ kept.candidate \in SeqToSet(b.tradeCandidates)
                    /\ \A tc \in SeqToSet(b.tradeCandidates) :
                         kept.candidate.score.total >= tc.score.total
                    /\ kept.sizing.requiredCollateral = kept.candidate.maxLoss
                    /\ kept.sizing.allocationPct
                         = <<kept.candidate.maxLoss, Val(request).accountSize>>
                    /\ kept.sizing.withinLimit
                         = (100 * kept.candidate.maxLoss <= 5 * Val(request).accountSize)

\* A ticker whose trade candidates differ in score.total, the lowest built
\* first, has its entry in candidates.
C8_Witness ==
  \E i \in 1..Len(built) :
    /\ Len(built[i].tradeCandidates) >= 2
    /\ \E j \in 2..Len(built[i].tradeCandidates) :
         built[i].tradeCandidates[j].score.total > built[i].tradeCandidates[1].score.total
    /\ CandidatesFor(built[i].ticker) # {}

----------------------------------------------------------------------------
(* Properties of selectStrategies (SpecSelect) *)

SelectDone == selectPc = "done"
Eligible(strat) == \E i \in 1..Len(selection.strategies) : selection.strategies[i] = strat
BothRegimes(regime) == selection.marketRegime = regime /\ selection.stockRegime = regime
AnyRegime(regime) == selection.marketRegime = regime \/ selection.stockRegime = regime

\* Defined-risk bias: the caller's preference when given, otherwise implied
\* by failing the holdability gate.
BiasDefinedRisk ==
  IF IsNull(Val(selectInput).preferDefinedRisk) THEN ~selection.assignmentEligible
  ELSE Val(Val(selectInput).preferDefinedRisk)

\* C11 as stated: PCS is eligible whenever the two regimes are not both BEAR
\* (CSP too unless defined-risk bias is active), and CCS whenever they are
\* not both BULL (CC too unless defined-risk bias is active).
C11_Original ==
  SelectDone =>
    /\ ~BothRegimes("BEAR") => Eligible("PCS") /\ (~BiasDefinedRisk => Eligible("CSP"))
    /\ ~BothRegimes("BULL") => Eligible("CCS") /\ (~BiasDefinedRisk => Eligible("CC"))

\* C11 amended: PCS is eligible exactly when neither regime is BEAR, and CSP
\* exactly when in addition defined-risk bias is inactive; CCS is eligible
\* exactly when the regimes are not both BULL, and CC exactly when in
\* addition defined-risk bias is inactive.
C11_RegimesSelectStrategies ==
  SelectDone =>
    /\ Eligible("PCS") <=> ~AnyRegime("BEAR")
    /\ Eligible("CSP") <=> (~AnyRegime("BEAR") /\ ~BiasDefinedRisk)
    /\ Eligible("CCS") <=> ~BothRegimes("BULL")
    /\ Eligible("CC") <=> (~BothRegimes("BULL") /\ ~BiasDefinedRisk)

\* One regime is BEAR and the other is not: PCS and CSP are withheld although
\* the regimes are not both BEAR, while CCS is offered.
C11_Witness ==
  /\ SelectDone
  /\ selection.marketRegime = "BEAR" /\ selection.stockRegime = "BULL"
  /\ ~BiasDefinedRisk
  /\ ~Eligible("PCS") /\ ~Eligible("CSP") /\ Eligible("CCS") /\ Eligible("CC")

\* The holdability gate read off the input: fundamentals missing, market cap
\* below $5B, debt/equity above 2.5 or current ratio below 1.
FailsHoldability ==
  LET fund == Val(selectInput).fundamentals
  IN \/ IsNull(fund)
     \/ ~IsNull(Val(fund).marketCap) /\ Val(Val(fund).marketCap) < 5000
     \/ ~IsNull(Val(fund).debtToEquity) /\ Val(Val(fund).debtToEquity) > 250
     \/ ~IsNull(Val(fund).currentRatio) /\ Val(Val(fund).currentRatio) < 100

\* C12: a name that fails the holdability gate (assignmentEligible = false)
\* is never offered CSP or CC, whatever preferDefinedRisk is.
C12_NotHoldableNoAssignment ==
  SelectDone /\ FailsHoldability =>
    /\ ~selection.assignmentEligible
    /\ ~Eligible("CSP") /\ ~Eligible("CC")

\* The part of C12 the selector keeps: a name that fails the gate is
\* reported with assignmentEligible = false, and is offered CSP or CC only
\* when preferDefinedRisk is given as false.
C12_AssignmentOnlyByExplicitOptOut ==
  SelectDone /\ FailsHoldability =>
    /\ ~selection.assignmentEligible
    /\ Eligible("CSP") \/ Eligible("CC") => Val(selectInput).preferDefinedRisk = Some(FALSE)

----------------------------------------------------------------------------
(* Properties of rankExpirations (SpecRank) *)

RankDone == rankPc = "done"

\* The position in the input of the candidate for an expiration.
InputPosition(expiration) ==
  CHOOSE i \in 1..Len(rankInput) : rankInput[i].expiration = expiration

WithoutScore(item) ==
  [expiration |-> item.expiration, dte |-> item.dte, thetaPerDay |-> item.thetaPerDay,
   credit |-> item.credit, maxLoss |-> item.maxLoss, riskFlags |-> item.riskFlags,
   strategy |-> item.strategy]

\* C13: rankExpirations returns at most topN items, in non-increasing order
\* of score with equal scores in input order; each item is an input
\* candidate, returned once, extended with a score in [0, 1]; and when topN
\* is at least the input length every input candidate is returned, whatever
\* its DTE.
C13_RankedTopNInOrder ==
  RankDone =>
    /\ Len(rankedTop) <= rankTopN
    /\ \A k \in 1..Len(rankedTop) :
         /\ \E i \in 1..Len(rankInput) : WithoutScore(rankedTop[k]) = rankInput[i]
         /\ rankedTop[k].score >= 0 /\ rankedTop[k].score <= 100000
    /\ \A k, l \in 1..Len(rankedTop) :
         k < l =>
           /\ rankedTop[k].expiration # rankedTop[l].expiration
           /\ rankedTop[k].score >= rankedTop[l].score
           /\ rankedTop[k].score = rankedTop[l].score =>
                InputPosition(rankedTop[k].expiration) < InputPosition(rankedTop[l].expiration)
    /\ rankTopN >= Len(rankInput) =>
         /\ Len(rankedTop) = Len(rankInput)
         /\ \A i \in 1..Len(rankInput) :
              \E k \in 1..Len(rankedTop) : rankedTop[k].expiration = rankInput[i].expiration

\* Four candidates rankedTop with topN = 3: the two equal scores come back in
\* input order, and an expiration outside both DTE bands is returned.
C13_Witness ==
  /\ RankDone
  /\ Len(rankInput) = 4 /\ rankTopN = 3 /\ Len(rankedTop) = 3
  /\ \E k \in 1..2 :
       /\ rankedTop[k].score = rankedTop[k + 1].score
       /\ rankedTop[k].dte = 60 /\ rankedTop[k + 1].dte = 30
  /\ \E k \in 1..3 : rankedTop[k].dte > 70

\* The candidates of the response, once qualify has returned.
Returned == IF IsNull(response) THEN <<>> ELSE Val(response).candidates

\* C14: every trade candidate returned by qualify has an expiration inside
\* the 30-60 DTE window.
C14_CandidatesInsideDteWindow ==
  \A k \in 1..Len(Returned) :
    Returned[k].candidate.dte >= 30 /\ Returned[k].candidate.dte <= 60

\* The recorded round of the loop a returned candidate came from.
RoundOf(t) == built[CHOOSE i \in 1..Len(built) : built[i].ticker = t]

\* The liquidity gate of a returned candidate: the gate qualify evaluates,
\* over the contracts of the candidate's expiration and at its short strike.
GateOf(out) ==
  evaluateLiquidityGate(RoundOf(out.ticker).avgVolume, Some(out.candidate.shortStrike),
                        filterContractsByExpiration(RoundOf(out.ticker).contracts,
                                                    out.candidate.expiration))

\* C15: every candidate returned by qualify has a passed liquidity gate, on
\* a known average stock volume.
C15_LiquidityIsHardFilter ==
  \A k \in 1..Len(Returned) :
    /\ ~IsNull(RoundOf(Returned[k].ticker).avgVolume)
    /\ GateOf(Returned[k]).passed

----------------------------------------------------------------------------
(* Properties of evaluateLiquidityGate (SpecGate) *)

GateDone == gatePc = "done"
GateReports(code) == \E i \in 1..Len(gateResult.reasons) : gateResult.reasons[i] = code

\* How far a contract of the input is from being the one evaluated: its
\* distance to the target strike, or with no target its open interest short
\* of the highest.
Remoteness(i) ==
  LET cs == Val(gateInput).contracts
      target == Val(gateInput).shortStrike
  IN IF IsNull(target) THEN 0 - cs[i].openInterest
     ELSE Abs(cs[i].strike - Val(target))

\* The contract the gate looks at: the first of the least remote ones.
Evaluated ==
  LET cs == Val(gateInput).contracts
  IN cs[CHOOSE i \in 1..Len(cs) :
          \A j \in 1..Len(cs) :
            /\ Remoteness(i) <= Remoteness(j)
            /\ j < i => Remoteness(j) > Remoteness(i)]

\* C16: each of the three reasons is reported exactly when its own condition
\* holds (known volume below 1,000,000; (ask - bid) / mid of the evaluated
\* contract above 5%; open interest of the evaluated contract below 500),
\* whatever the other two, and passed is true exactly when no reason is
\* reported.
C16_ReasonsIndependent ==
  GateDone =>
    LET volume == Val(gateInput).avgDailyVolume
        none == Len(Val(gateInput).contracts) = 0
    IN /\ GateReports("DISQUALIFIED_LOW_STOCK_LIQUIDITY")
            <=> (~IsNull(volume) /\ Val(volume) < 1000000)
       /\ GateReports("DISQUALIFIED_WIDE_OPTIONS_SPREAD")
            <=> (/\ ~none
                 /\ Evaluated.bid + Evaluated.ask > 0
                 /\ 100 * 2 * (Evaluated.ask - Evaluated.bid)
                      > 5 * (Evaluated.bid + Evaluated.ask))
       /\ GateReports("DISQUALIFIED_LOW_OPEN_INTEREST")
            <=> (~none /\ Evaluated.openInterest < 500)
       /\ gateResult.passed <=> (Len(gateResult.reasons) = 0)
       /\ Len(gateResult.reasons) <= 3
       /\ \A i, j \in 1..Len(gateResult.reasons) :
            i # j => gateResult.reasons[i] # gateResult.reasons[j]

\* A volume of 500,000 with a wide market and thin open interest on the
\* evaluated contract: all three reasons come back together.
C16_Witness ==
  /\ GateDone
  /\ Val(gateInput).avgDailyVolume = Some(500000)
  /\ Len(Val(gateInput).contracts) >= 2
  /\ gateResult.reasons = <<"DISQUALIFIED_LOW_STOCK_LIQUIDITY",
                            "DISQUALIFIED_WIDE_OPTIONS_SPREAD",
                            "DISQUALIFIED_LOW_OPEN_INTEREST">>
  /\ ~gateResult.passed

----------------------------------------------------------------------------
(* Properties of buildUniverse (SpecUniverse) *)

UniverseDone == universePc = "done"

\* The distinct normalized tickers of the resolved source.
NormalizedInput == {normalizeTicker(sourceTickers[i]) : i \in 1..Len(sourceTickers)}

Occurrences(list, t) == Cardinality({i \in 1..Len(list) : list[i].ticker = t})

Ascending(list) ==
  \A i, j \in 1..Len(list) : i < j => TickerBefore(list[i].ticker, list[j].ticker)

\* The reasons the round of a decision accumulated, from the provider
\* responses that round met.
Accumulated(decision) ==
  LET k == CHOOSE i \in 1..Len(normalizedTickers) : normalizedTickers[i] = decision.ticker
  IN decideTicker(decision.ticker, Val(universeRequest).config, apiKeys, lookups[k]).reasons

\* C17: every distinct normalized input ticker is in exactly one of included
\* and excluded, once, and no other ticker is; a decision is in excluded
\* exactly when it carries an EXCLUDE reason and a decision in included has
\* no reason; the reasons of a decision are all those its round accumulated;
\* and both lists are in ascending ticker order.
C17_UniversePartition ==
  UniverseDone =>
    /\ \A t \in NormalizedInput :
         Occurrences(universeIncluded, t) + Occurrences(universeExcluded, t) = 1
    /\ \A i \in 1..Len(universeIncluded) :
         /\ universeIncluded[i].ticker \in NormalizedInput
         /\ universeIncluded[i].reasons = <<>>
         /\ Accumulated(universeIncluded[i]) = <<>>
    /\ \A i \in 1..Len(universeExcluded) :
         /\ universeExcluded[i].ticker \in NormalizedInput
         /\ \E k \in 1..Len(universeExcluded[i].reasons) :
              universeExcluded[i].reasons[k].severity = "EXCLUDE"
         /\ universeExcluded[i].reasons = Accumulated(universeExcluded[i])
    /\ Ascending(universeIncluded)
    /\ Ascending(universeExcluded)

\* Three source tickers, two of which normalize to the same one, given out
\* of order: one ticker is included, the other excluded with two reasons.
C17_Witness ==
  /\ UniverseDone
  /\ Len(sourceTickers) = 3 /\ Cardinality(NormalizedInput) = 2
  /\ TickerBefore(normalizeTicker(sourceTickers[3]), normalizeTicker(sourceTickers[1]))
  /\ Len(universeIncluded) = 1 /\ Len(universeExcluded) = 1
  /\ Len(universeExcluded[1].reasons) >= 2

Decisions == universeIncluded \o universeExcluded

HasReasonCode(decision, code) ==
  \E k \in 1..Len(decision.reasons) : decision.reasons[k].code = code

\* The profile request of the round of a decision was made and failed, or
\* came back without a row.
ProfileLookupEmpty(decision) ==
  LET k == CHOOSE i \in 1..Len(normalizedTickers) : normalizedTickers[i] = decision.ticker
  IN /\ apiKeys.fmp
     /\ \/ IsNull(lookups[k].profile)
        \/ Len(Val(lookups[k].profile)) = 0

\* C18: a ticker whose profile lookup failed or returned no data is treated
\* as of unknown profile: with allowUnknownProfile = false it is excluded
\* with UNKNOWN_PROFILE, with allowUnknownProfile = true it gets none of
\* UNKNOWN_PROFILE, NON_US_LISTING and ADR_OR_INTL.
C18_FailedProfileIsUnknown ==
  \A i \in 1..Len(Decisions) :
    ProfileLookupEmpty(Decisions[i]) =>
      IF Val(universeRequest).config.allowUnknownProfile
      THEN /\ ~HasReasonCode(Decisions[i], "UNKNOWN_PROFILE")
           /\ ~HasReasonCode(Decisions[i], "NON_US_LISTING")
           /\ ~HasReasonCode(Decisions[i], "ADR_OR_INTL")
      ELSE HasReasonCode(Decisions[i], "UNKNOWN_PROFILE")

\* What the builder does instead: such a ticker is excluded as a non-US
\* listing whatever allowUnknownProfile is, and UNKNOWN_PROFILE is given
\* only when no FMP client could be made and allowUnknownProfile is false.
C18_FailedProfileIsNonUs ==
  \A i \in 1..Len(Decisions) :
    /\ ProfileLookupEmpty(Decisions[i]) =>
         /\ HasReasonCode(Decisions[i], "NON_US_LISTING")
         /\ ~HasReasonCode(Decisions[i], "UNKNOWN_PROFILE")
         /\ \E k \in 1..Len(universeExcluded) : universeExcluded[k] = Decisions[i]
    /\ HasReasonCode(Decisions[i], "UNKNOWN_PROFILE")
         <=> (~apiKeys.fmp /\ ~Val(universeRequest).config.allowUnknownProfile)

----------------------------------------------------------------------------
(* Properties of qualify: event risk, explanation inputs *)

Flagged(tc, flag) == \E i \in 1..Len(tc.riskFlags) : tc.riskFlags[i] = flag

EarningsWithin(calendar, dte) ==
  /\ ~IsNull(calendar.earnings.daysToEarnings)
  /\ Val(calendar.earnings.daysToEarnings) >= 0
  /\ Val(calendar.earnings.daysToEarnings) <= dte

\* What C19 asks of a trade candidate scored against a calendar.
EventRiskShown(calendar, tc) ==
  /\ EarningsWithin(calendar, tc.dte) => Flagged(tc, "RISK_EARNINGS_WITHIN_TRADE")
  /\ Len(calendar.macroEvents) >= 1 => Flagged(tc, "RISK_MACRO_EVENT")
  /\ EarningsWithin(calendar, tc.dte) \/ Len(calendar.macroEvents) >= 1
       => tc.score.eventRisk < 10

----------------------------------------------------------------------------
(* Properties of buildExplanation (SpecExplain) *)

ExplainDone == explainPc = "done"

\* C20: buildExplanation completes without raising whichever optional
\* fields are absent or null, never returns more than six bullets, and
\* returns at least three when the input carries a score.
C20_ThreeToSixBullets ==
  ExplainDone =>
    /\ ~explanation.raised
    /\ Len(explanation.why) <= 6
    /\ IsGiven(Val(explainInput).score) => Len(explanation.why) >= 3

\* What holds of the builder: it raises exactly when volatility, liquidity,
\* fundamentals or calendar is absent or null, and a result it does return
\* has at most six bullets, at least three of them when a score is given.
C20_BulletsWhenReturned ==
  ExplainDone =>
    /\ explanation.raised
         <=> (\/ ~IsGiven(Val(explainInput).volatility)
              \/ ~IsGiven(Val(explainInput).liquidity)
              \/ ~IsGiven(Val(explainInput).fundamentals)
              \/ ~IsGiven(Val(explainInput).calendar))
    /\ ~explanation.raised =>
         /\ Len(explanation.why) <= 6
         /\ IsGiven(Val(explainInput).score) => Len(explanation.why) >= 3

----------------------------------------------------------------------------
(* Properties of evaluatePositionSizing (SpecSizing) *)

SizingDone == sizingPc = "done"

\* maxAllocationPct ?? 0.05, in hundredths
LimitOf(input) == IF IsNull(input.maxPerTradePct) THEN 5 ELSE Val(input.maxPerTradePct)

\* C21: allocationPct is requiredCollateral / accountSize for a positive
\* account and 0 otherwise, withinLimit says allocationPct does not exceed
\* the limit (5% by default), a warning is given exactly when withinLimit is
\* false (an account of 100,000 with collateral 6,000 gives 6% against 5%),
\* and the candidate is pushed with that sizing whether within limit or not.
C21_SizingIsAdvisory ==
  SizingDone =>
    LET input == Val(sizingInput)
        out == sizingResult
    IN /\ out.allocationPct[2] > 0
       /\ IF input.accountSize > 0
          THEN out.allocationPct[1] * input.accountSize
                 = input.best.maxLoss * out.allocationPct[2]
          ELSE out.allocationPct[1] = 0
       /\ out.withinLimit
            <=> (100 * out.allocationPct[1] <= LimitOf(input) * out.allocationPct[2])
       /\ IsNull(out.warning) <=> out.withinLimit
       /\ (/\ input.accountSize = 1000 /\ input.best.maxLoss = 60
           /\ IsNull(input.maxPerTradePct))
            => /\ ~out.withinLimit
               /\ out.warning = Some([allocation |-> 6, limit |-> 5])
       /\ Len(sizedCandidates) = 1
       /\ sizedCandidates[1].ticker = input.ticker
       /\ sizedCandidates[1].candidate = input.best
       /\ sizedCandidates[1].sizing.withinLimit = out.withinLimit
       /\ sizedCandidates[1].sizing.warning = out.warning

\* The candidate of 6% against the default limit is pushed with its warning.
C21_Witness ==
  /\ SizingDone
  /\ Len(sizedCandidates) = 1
  /\ ~sizedCandidates[1].sizing.withinLimit
  /\ ~IsNull(sizedCandidates[1].sizing.warning)
  /\ Val(sizingInput).accountSize = 1000
  /\ Val(sizingInput).best.maxLoss = 60
  /\ Val(sizingInput).maxPerTradePct = Null

----------------------------------------------------------------------------
(* Properties of evaluateConcentrationRisk (SpecConcentration) *)

ConcentrationDone == concentrationPc = "done"

Exposures == Val(concentrationInput).positions
Limits == mergeConcentrationConfig(Val(concentrationInput).config)

SectorsHeld == {normalizeSector(Exposures[i].sector) : i \in 1..Len(Exposures)}
TickersHeld == {Exposures[i].ticker : i \in 1..Len(Exposures)}

RECURSIVE CollateralOver(_)
CollateralOver(indices) ==
  IF indices = {} THEN 0
  ELSE LET i == CHOOSE k \in indices : TRUE
       IN Exposures[i].collateral + CollateralOver(indices \ {i})

TotalCollateral == CollateralOver(1..Len(Exposures))
SectorCollateral(sector) ==
  CollateralOver({i \in 1..Len(Exposures) : normalizeSector(Exposures[i].sector) = sector})
PositionsIn(symbol) == Cardinality({i \in 1..Len(Exposures) : Exposures[i].ticker = symbol})

\* Sectors whose share of the total collateral is at least the threshold.
SectorsAtLeast(threshold) ==
  {s \in SectorsHeld : /\ TotalCollateral > 0
                       /\ 100 * SectorCollateral(s) >= threshold * TotalCollateral}
CrowdedTickers == {t \in TickersHeld : PositionsIn(t) > Limits.maxPositionsPerTicker}
HighBeta ==
  \E i \in 1..Len(Exposures) :
    ~IsNull(Exposures[i].beta) /\ Val(Exposures[i].beta) >= Limits.highBetaThreshold

Emits(flag) ==
  \E i \in 1..Len(concentrationResult.riskFlags) : concentrationResult.riskFlags[i] = flag
ViolationsAbout(about, name) ==
  {i \in 1..Len(concentrationResult.violations) :
     /\ concentrationResult.violations[i].about = about
     /\ concentrationResult.violations[i].name = name}

----------------------------------------------------------------------------
(* Properties of qualify: what becomes of each requested ticker *)

RequestedTickers == SeqToSet(Val(request).tickers)
ReturnedFor(t) ==
  {k \in 1..Len(Val(response).candidates) : Val(response).candidates[k].ticker = t}
RejectedFor(t) ==
  {k \in 1..Len(Val(response).disqualified) : Val(response).disqualified[k].ticker = t}
CandidateLimit ==
  IF IsNull(Val(request).maxCandidates) THEN 25 ELSE Val(Val(request).maxCandidates)

\* C23 as stated: every requested ticker is in exactly one of the two lists
\* of the response, once, whatever maxCandidates is.
C23_Original ==
  ~IsNull(response) =>
    \A t \in RequestedTickers :
      /\ Cardinality(ReturnedFor(t)) + Cardinality(RejectedFor(t)) = 1
      /\ \A k \in RejectedFor(t) : Val(response).disqualified[k].reasons # <<>>

\* C23: in a response every requested ticker appears at most once over the
\* two lists, a disqualified one with a non-empty reasons list, and the
\* tickers in neither list are exactly those that qualified and were ranked
\* below the first maxCandidates (25 by default).
C23_TickersAccountedUpToLimit ==
  ~IsNull(response) =>
    \A t \in RequestedTickers :
      /\ Cardinality(ReturnedFor(t)) + Cardinality(RejectedFor(t)) <= 1
      /\ \A k \in RejectedFor(t) : Val(response).disqualified[k].reasons # <<>>
      /\ (ReturnedFor(t) = {} /\ RejectedFor(t) = {})
           <=> \E k \in 1..Len(candidates) :
                 k > CandidateLimit /\ candidates[k].ticker = t

\* A response to a request with maxCandidates 1 in which two tickers
\* qualified and a third was disqualified: the lower-ranked one is in
\* neither list.
C23_Witness ==
  /\ ~IsNull(response)
  /\ Val(request).maxCandidates = Some(1)
  /\ Len(candidates) = 2
  /\ Len(Val(response).candidates) = 1
  /\ Len(Val(response).disqualified) = 1
  /\ \E t \in RequestedTickers : ReturnedFor(t) = {} /\ RejectedFor(t) = {}

----------------------------------------------------------------------------
(* Properties of AlpacaClient.request (SpecRetryLive) *)

RetryEnded == retryPc \in {"returned", "raised"}
Retryable(status) == status \in {408, 429} \/ status >= 500

\* The wait expected after the n-th response (n from 1).
ExpectedWait(n) ==
  IF IsNull(waits[n].retryAfter) \/ Val(waits[n].retryAfter).empty
  THEN 250 * 2 ^ (n - 1) + waits[n].jitter
  ELSE 1000 * Val(waits[n].retryAfter).seconds + waits[n].jitter

RetrySafe ==
  /\ fetches <= Max2(maxRetries + 1, 0)
  /\ fetches <= Len(waits) + 1
  /\ Len(statuses) <= fetches
  /\ Len(waits) <= Len(statuses)
  /\ \A n \in 1..Len(waits) : Retryable(statuses[n]) /\ waits[n].ms = ExpectedWait(n)
  /\ \A n \in 1..Len(statuses) :
       \/ /\ statuses[n] >= 200 /\ statuses[n] <= 299
          /\ n = Len(statuses) /\ RetryEnded /\ Len(waits) = n - 1
       \/ /\ Retryable(statuses[n]) /\ n <= maxRetries
          /\ Len(waits) >= n
       \/ /\ Retryable(statuses[n]) /\ n = maxRetries + 1
          /\ n = Len(statuses) /\ retryPc = "raised" /\ Len(waits) = n - 1
       \/ /\ ~Retryable(statuses[n]) /\ (statuses[n] < 200 \/ statuses[n] > 299)
          /\ n = Len(statuses) /\ retryPc = "raised" /\ Len(waits) = n - 1
  /\ retryPc = "returned" => statuses[Len(statuses)] \in 200..299

\* C24: a call issues at most maxRetries + 1 fetches; an OK response ends it
\* at once; a further fetch follows only a 429, 408 or 5xx response and the
\* wait of Retry-After seconds, else 250 ms * 2^attempt, plus jitter; any
\* other status raises at that attempt without a wait, as does a retryable
\* status on the last attempt; and the call always ends, returning or
\* raising.
C24_BoundedRetriesTerminate == []RetrySafe /\ <>RetryEnded

\* A call of the default client that raised after its fourth fetch, having
\* waited by backoff and by Retry-After.
C24_Witness ==
  /\ retryPc = "raised"
  /\ maxRetries = 3 /\ fetches = 4 /\ Len(statuses) = 4 /\ Len(waits) = 3
  /\ waits[1].ms = 250 /\ waits[2].ms = 2100 /\ waits[3].ms = 1000
  /\ IsNull(waits[1].retryAfter) /\ ~IsNull(waits[2].retryAfter)

----------------------------------------------------------------------------
(* Properties of withCache (SpecCache) *)

\* The writes to a key so far, oldest first.
WritesTo(key) == Filter(writes, LAMBDA w : w.key = key)

\* What a finished call may have been served: a write to its key made
\* before it read, not yet expired at the time of the read.
ServedBy(c) ==
  {i \in 1..Len(writes) :
     /\ writes[i].key = calls[c].key
     /\ writes[i].value = calls[c].result
     /\ calls[c].readAt < writes[i].at + writes[i].ttlMs}

CacheSound ==
  /\ \A c \in Calls :
       calls[c].pc = "returned" =>
         IF calls[c].fromCache
         THEN ServedBy(c) # {} /\ calls[c].loaded = ""
         ELSE calls[c].result = calls[c].loaded
              /\ \E i \in 1..Len(writes) : writes[i].by = c /\ writes[i].value = calls[c].result
  /\ \A key \in CacheKeys :
       \/ IsNull(cacheStore[key])
       \/ /\ WritesTo(key) # <<>>
          /\ Bind(WritesTo(key)[Len(WritesTo(key))], LAMBDA last :
               Val(cacheStore[key]) = [value |-> last.value,
                                       expiresAt |-> last.at + last.ttlMs])

\* A step of one call, told by the change of its position.
Reading(c) == calls[c].pc = "start" /\ calls'[c].pc # "start"
Raising(c) == calls[c].pc = "loading" /\ calls'[c].pc = "raised"

CacheSteps ==
  \A c \in Calls :
    /\ Reading(c) =>
         IF ~IsNull(cacheStore[calls[c].key])
            /\ Val(cacheStore[calls[c].key]).expiresAt <= clock
         THEN /\ IsNull(cacheStore'[calls[c].key])
              /\ calls'[c].pc = "loading"
              /\ \A other \in CacheKeys \ {calls[c].key} : cacheStore'[other] = cacheStore[other]
         ELSE cacheStore' = cacheStore
    /\ Raising(c) => cacheStore' = cacheStore /\ writes' = writes

\* C25: under every interleaving of withCache calls, a call served from the
\* cache got a value stored for its key that had not reached its expiresAt
\* (write time + ttlMs) when it read, every other returning call returns its
\* own loader's result and has written it, the entry held for a key is the
\* one written last, a read removes an expired entry and changes nothing
\* else, and a loader that raises leaves the cache as it was.
C25_CacheToleratesRaces == []CacheSound /\ [][CacheSteps]_vars

\* Two calls missed the same key together and both wrote, the later write
\* is the entry, and a third call was served that entry.
C25_Witness ==
  /\ \A c \in Calls : calls[c].pc = "returned" /\ calls[c].key = "quote:A"
  /\ Len(writes) = 2
  /\ writes[1].by = 1 /\ writes[2].by = 2
  /\ calls[1].readAt <= writes[1].at /\ calls[2].readAt <= writes[1].at
  /\ calls[3].fromCache /\ calls[3].result = "v2" /\ calls[3].readAt > writes[2].at
  /\ Val(cacheStore["quote:A"]).value = "v2"

----------------------------------------------------------------------------
(* Properties of findStrikeCandidate: failures and spread geometry *)

\* Same-side contracts whose distance from the selected short strike is in
\* the configured width range.
LongsInRange ==
  {i \in 1..Len(chain) :
     /\ chain[i].side = SideOf(strategy)
     /\ Abs(chain[i].strike - Val(shortSel).strike) >= config.spreadWidthMin
     /\ Abs(chain[i].strike - Val(shortSel).strike) <= config.spreadWidthMax}

CreditReason == HasReason("INSUFFICIENT_CREDIT") \/ HasReason("POOR_CREDIT_TO_WIDTH")

\* C26: an empty chain gives the single reason NO_TRADE; a non-empty chain
\* without a surviving short contract the single reason
\* NO_VALID_SHORT_STRIKE, with no long strike sought; a spread whose short
\* strike has no long contract in range the single reason
\* NO_VALID_LONG_STRIKE; CSP and CC never give NO_VALID_LONG_STRIKE nor a
\* longStrike; and the two credit reasons occur only with all strikes
\* resolved.
C26_FailuresTerminalAndExclusive ==
  StrikeDone =>
    /\ HasReason("NO_TRADE") <=> chain = <<>>
    /\ HasReason("NO_VALID_SHORT_STRIKE") <=> (chain # <<>> /\ Survivors = {})
    /\ HasReason("NO_VALID_LONG_STRIKE")
         <=> (IsSpread(strategy) /\ Survivors # {} /\ LongsInRange = {})
    /\ \A code \in {"NO_TRADE", "NO_VALID_SHORT_STRIKE", "NO_VALID_LONG_STRIKE"} :
         HasReason(code) => strikeResult.reasons = <<code>> /\ IsNull(longSel)
                            /\ strikeResult.credit = 0 /\ IsNull(strikeResult.longStrike)
    /\ (HasReason("NO_TRADE") \/ HasReason("NO_VALID_SHORT_STRIKE")) => IsNull(shortSel)
    /\ HasReason("NO_VALID_LONG_STRIKE") => ~IsNull(shortSel)
    /\ ~IsSpread(strategy) => IsNull(strikeResult.longStrike) /\ IsNull(longSel)
    /\ CreditReason => StrikesResolved

\* A spread over a full chain whose short strike was found and has no long
\* contract in range, with a same-side contract that failed the short rules.
C26_Witness ==
  /\ StrikeDone
  /\ IsSpread(strategy)
  /\ HasReason("NO_VALID_LONG_STRIKE")
  /\ Len(chain) = MaxChain
  /\ \E i \in 1..Len(chain) : chain[i].side = SideOf(strategy) /\ i \notin Survivors

----------------------------------------------------------------------------
(* Properties of qualify: the order of the provider requests *)

PositivePrice(price) == ~IsNull(price) /\ Val(price) > 0

MissingPriceEntry == [message |-> "Missing price data.", summary |-> <<>>]

\* The step disqualifies the current ticker for its missing price.
DisqualifiesForPrice ==
  /\ Len(disqualified') = Len(disqualified) + 1
  /\ MissingPriceEntry \in SeqToSet(disqualified'[Len(disqualified')].reasons)

PriceResolutionStep ==
  /\ qPc' = "quote" => qPc = "fundamentals"
  /\ qPc' = "latestTrade" => qPc = "quote" /\ ~PositivePrice(resolvedPrice')
  /\ qPc' = "latestQuote" => qPc = "latestTrade" /\ ~PositivePrice(resolvedPrice')
  /\ (qPc = "quote" /\ PositivePrice(resolvedPrice')) => qPc' = "chain"
  /\ (qPc' = "chain" /\ qPc # "chain")
       => /\ qPc \in {"quote", "latestTrade", "latestQuote"}
          /\ PositivePrice(resolvedPrice')
          /\ IsNull(tickerChain)
  /\ qPc' = "calendar" => qPc = "chain" /\ PositivePrice(resolvedPrice)
  /\ DisqualifiesForPrice
       => /\ qPc \in {"latestTrade", "latestQuote"}
          /\ ~PositivePrice(resolvedPrice)
          /\ IsNull(tickerChain)
          /\ disqualified'[Len(disqualified')]
               = [ticker |-> ticker, reasons |-> <<MissingPriceEntry>>]
  /\ (qPc \in {"latestTrade", "latestQuote"} /\ qPc' \notin {"latestQuote", "chain"})
       => DisqualifiesForPrice

\* C27: the price of a ticker is taken from the FMP quote, else (missing or
\* not positive) from the Alpaca latest trade, else (not positive) from the
\* midpoint of the Alpaca latest quote; an error of the Alpaca fallback only
\* leaves the price missing; the option chain and the calendar are requested
\* only with a positive price; a ticker without one is disqualified with the
\* single reason "Missing price data." before any chain or calendar request.
C27_PriceBeforeChain ==
  /\ [](qPc \in {"chain", "calendar"} => PositivePrice(resolvedPrice))
  /\ [][PriceResolutionStep]_vars

\* A finished run in which one ticker got its price from a fallback or the
\* quote and was built, one was disqualified for its missing price after the
\* latest quote had no midpoint, and one after the fallback raised.
C27_Witness ==
  /\ qPc = "done"
  /\ Len(built) = 1
  /\ Len(raised) = 1 /\ raised[1].swallowed
  /\ Cardinality({k \in 1..Len(disqualified) :
                    disqualified[k].reasons = <<MissingPriceEntry>>}) = 2

\* C28: a spread candidate returned without reasons has its long strike
\* strictly further out of the money than its short strike (below it for
\* PCS, above it for CCS), at a distance within [spreadWidthMin,
\* spreadWidthMax].
C28_LongLegFurtherOtm ==
  (StrikeDone /\ IsSpread(strategy) /\ strikeResult.reasons = <<>>) =>
    /\ IF strategy = "PCS"
       THEN Val(strikeResult.longStrike) < strikeResult.shortStrike
       ELSE Val(strikeResult.longStrike) > strikeResult.shortStrike
    /\ Abs(strikeResult.shortStrike - Val(strikeResult.longStrike)) >= config.spreadWidthMin
    /\ Abs(strikeResult.shortStrike - Val(strikeResult.longStrike)) <= config.spreadWidthMax

\* What holds of the long leg: it is a same-side contract of the chain at a
\* distance within the width range, on either side of the short strike.
C28_LongLegWithinWidth ==
  (StrikeDone /\ IsSpread(strategy) /\ strikeResult.reasons = <<>>) =>
    /\ ~IsNull(longSel) /\ Val(longSel).side = SideOf(strategy)
    /\ strikeResult.longStrike = Some(Val(longSel).strike)
    /\ Abs(strikeResult.shortStrike - Val(strikeResult.longStrike)) >= config.spreadWidthMin
    /\ Abs(strikeResult.shortStrike - Val(strikeResult.longStrike)) <= config.spreadWidthMax

----------------------------------------------------------------------------
(* Properties of qualify: the two strike searches of an expiration *)

\* The first search of buildExpirationCandidates for one strategy over the
\* chain of a recorded round, and the expirations ranked from it.
FirstSearches(b, strat) == firstPass(b.contracts, b.price, strat)
RankedFor(b, strat) ==
  IF \A i \in 1..Len(FirstSearches(b, strat)) : FirstSearches(b, strat)[i].strike.reasons # <<>>
  THEN <<>>
  ELSE rankExpirations(buildExpirationCandidates(b.contracts, b.price, strat, <<>>))
SecondSearch(b, strat, expiration) ==
  findStrikeCandidate(Filter(b.contracts, LAMBDA c : c.expiration = expiration),
                      b.price, strat, DEFAULT_CONFIG)
TradesOf(b, strat, expiration) ==
  {j \in 1..Len(b.tradeCandidates) :
     /\ b.tradeCandidates[j].strategy = strat
     /\ b.tradeCandidates[j].expiration = expiration}

\* What C29 says of one selected strategy of a recorded round.
StrategyRepeatable(b, strat) ==
  LET first == FirstSearches(b, strat)
      ranked == RankedFor(b, strat)
  IN \A k \in 1..Len(ranked) :
       LET expiration == ranked[k].expiration
           second == SecondSearch(b, strat, expiration)
           trades == TradesOf(b, strat, expiration)
       IN /\ second.reasons = <<>>
          /\ \E n \in 1..Len(first) :
               first[n].expiration = expiration /\ first[n].strike = second
          /\ ranked[k].credit = second.credit
          /\ ranked[k].maxLoss = second.maxLoss
          /\ Cardinality(trades) = 1
          /\ \A j \in trades :
               /\ b.tradeCandidates[j].shortStrike = second.shortStrike
               /\ b.tradeCandidates[j].longStrike = second.longStrike
               /\ b.tradeCandidates[j].credit = second.credit
               /\ b.tradeCandidates[j].maxLoss = second.maxLoss
TradeIsRanked(b, trade) ==
  /\ trade.strategy \in SeqToSet(b.strategies)
  /\ LET ranked == RankedFor(b, trade.strategy)
     IN \E k \in 1..Len(ranked) : ranked[k].expiration = trade.expiration
RoundRepeatable(b) ==
  /\ \A strat \in SeqToSet(b.strategies) : StrategyRepeatable(b, strat)
  /\ \A j \in 1..Len(b.tradeCandidates) : TradeIsRanked(b, b.tradeCandidates[j])
  /\ Len(b.tradeCandidates) = 0 =>
       \A strat \in SeqToSet(b.strategies) :
         LET first == FirstSearches(b, strat)
         IN \A n \in 1..Len(first) : first[n].strike.reasons # <<>>
\* The step disqualifies the ticker of the round for missing strikes.
DisqualifiesForStrikes ==
  /\ Len(disqualified') = Len(disqualified) + 1
  /\ disqualified'[Len(disqualified')].ticker = built'[Len(built')].ticker
  /\ disqualified'[Len(disqualified')].reasons[1].message
       \in {"No valid strikes found.", "No valid strikes found within DTE window."}
----------------------------------------------------------------------------
(* Properties of selectStrategies: the shape of the strategy set *)

\* C30: the strategy set returned by selectStrategies is not empty, names no
\* strategy twice, holds PCS or CCS, holds CSP only together with PCS and CC
\* only together with CCS.
C30_SelectionHasSpread ==
  SelectDone =>
    /\ Len(selection.strategies) > 0
    /\ \A i, j \in 1..Len(selection.strategies) :
         selection.strategies[i] = selection.strategies[j] => i = j
    /\ SeqToSet(selection.strategies) \subseteq {"PCS", "CSP", "CCS", "CC"}
    /\ Eligible("PCS") \/ Eligible("CCS")
    /\ Eligible("CSP") => Eligible("PCS")
    /\ Eligible("CC") => Eligible("CCS")

\* A selection made with one regime BULL and the other BEAR, where only the
\* call side is offered, with the covered call next to its spread.
C30_Witness ==
  /\ SelectDone
  /\ selection.marketRegime = "BULL" /\ selection.stockRegime = "BEAR"
  /\ selection.strategies = <<"CCS", "CC">>

====
